---- MODULE Spec2Model ----
(***************************************************************************)
(* AlgorithmMDGPS (python/gps/algorithm/algorithm_mdgps.py): one call of   *)
(* iteration() as a sequence of phases over the per-condition iteration    *)
(* data cur/prev, the PolicyInfo objects they reference, the step          *)
(* multipliers and the policy optimizer.                                   *)
(*                                                                         *)
(* Numbers.  Step multipliers are fixed-point thousandths (1000 = 1.0).    *)
(* Costs are integers.  All condition means of _stepadjust share the       *)
(* denominator M, so the improvements are kept as M times their value      *)
(* (sums over conditions): comparisons and signs are those of the means.   *)
(*                                                                         *)
(* The base class gps.algorithm.algorithm.Algorithm, the policy optimizer, *)
(* the policy prior and the trajectory optimizer are not part of the       *)
(* source tree; their operations are modelled from the specification.      *)
(*                                                                         *)
(* Spec is the iteration loop.  SpecRamp evaluates                         *)
(* cost_utils.get_ramp_multiplier, SpecCosts AlgorithmMDGPS.compute_costs, *)
(* SpecAction CostAction.eval and eval_mu, SpecMuUpdate the size check of  *)
(* MU_Policy.update and SpecTerms the four penalty terms of cost_utils, on *)
(* bounded arguments, with floating-point values as exact fractions and    *)
(* exp(x) and log kept symbolic.                                           *)
(***************************************************************************)
EXTENDS Integers, Sequences, FiniteSets, TLC

\* ------------------------------------------------------------------ bounds
M == 2
T == 2
MaxIter == 3

Conds == 0 .. (M - 1)
Steps == 0 .. (T - 1)

\* ------------------------------------------------------- program constants
min_step_mult == 500
max_step_mult == 10000
InitStepMult == 1000
ShrinkDen == 10
GrowNum == 5
Tolerance == 0

\* Inputs: the content of a sample list and the quality of a controller the
\* trajectory optimizer returns.
Tags == {1, 2}
GainProfiles ==
    {[m \in Conds |-> 1], [m \in Conds |-> -1],
     [m \in Conds |-> IF m % 2 = 0 THEN 1 ELSE -1]}
NumSamples == {1, 2}
StepRules == {"laplace", "mc", "other"}

\* The sample lists handed to one call: the same number of samples for every
\* condition, or a shorter or a longer list for condition 0.
SampleProfiles ==
    {[m \in Conds |-> [N |-> 2, tag |-> 1]],
     [m \in Conds |-> [N |-> 2, tag |-> 2]],
     [m \in Conds |-> [N |-> 2, tag |-> IF m % 2 = 0 THEN 1 ELSE 2]],
     [m \in Conds |-> IF m = 0 THEN [N |-> 1, tag |-> 1] ELSE [N |-> 2, tag |-> 2]],
     [m \in Conds |-> IF m = 0 THEN [N |-> 2, tag |-> 1] ELSE [N |-> 1, tag |-> 2]]}

VARIABLES
    iteration_count,   \* self.iteration_count
    cur,               \* self.cur[m]
    prev,              \* self.prev[m]
    new_traj_distr,    \* self.new_traj_distr[m]
    heap,              \* PolicyInfo objects, their chol_pol_S arrays and priors
    policy_opt,        \* self.policy_opt: its training state
    step_rule,         \* self._hyperparams['step_rule']
    sample_lists,      \* argument of the running iteration() call
    pc,                \* position inside iteration()
    idx,               \* loop variable m of the running loop
    call_iter,         \* iteration_count when the running call was entered
    phase_log,         \* phases the running (or last) call has executed
    last_update,       \* arguments of the last policy_opt.update call
    n_initial,         \* number of _update_policy calls with initial_policy=True
    last_impr,         \* predicted_impr and actual_impr of the last _stepadjust
    mult_calls,        \* the _set_new_mult calls of the last _stepadjust
    fn_args,           \* arguments of the library function being evaluated
    fn_ret             \* what that function returned or raised

\* The state of the algorithm object.
algvars == <<iteration_count, cur, prev, new_traj_distr, heap, policy_opt,
             step_rule, sample_lists, pc, idx, call_iter, phase_log,
             last_update, n_initial, last_impr, mult_calls>>

\* The evaluation of a function of cost_utils or of compute_costs.
fnvars == <<fn_args, fn_ret>>

vars == <<iteration_count, cur, prev, new_traj_distr, heap, policy_opt,
          step_rule, sample_lists, pc, idx, call_iter, phase_log,
          last_update, n_initial, last_impr, mult_calls, fn_args, fn_ret>>

\* ------------------------------------------------------------------ values
ZeroVec == [t \in Steps |-> 0]

RECURSIVE SumTo(_, _)
SumTo(f, n) == IF n < 0 THEN 0 ELSE f[n] + SumTo(f, n - 1)

\* ndarray.sum() of a T-vector
SumVec(v) == SumTo(v, T - 1)

\* M times ndarray.mean() of an M-vector
SumConds(f) == SumTo(f, M - 1)

Ctrl(kind, gain) == [kind |-> kind, gain |-> gain]
NoCtrl == Ctrl("none", 0)
InitTrajDistr == Ctrl("init", 0)

EmptySampleList == [N |-> 0, tag |-> 0]
NewTrajInfo == [dynamics |-> 0, cc |-> ZeroVec, last_kl_step |-> 0]

IterationData ==
    [sample_list |-> EmptySampleList, cs |-> ZeroVec, traj_info |-> NewTrajInfo,
     traj_distr |-> NoCtrl, pol_info |-> 0, step_mult |-> InitStepMult,
     new_traj_distr |-> NoCtrl]

\* ---------------------------------------------------------------- the heap
Refs == 1 .. (2 * M)

NoPolS == [t \in Steps |-> [ver |-> 0, pd |-> TRUE]]
NoMu == [ver |-> 0, obs |-> 0]
FreePolInfo ==
    [pol_mu |-> NoMu, pol_sig |-> NoMu, pol_K |-> 0, pol_k |-> 0,
     pol_S |-> NoPolS, chol_pol_S |-> 0, policy_prior |-> 0]
FreePrior == [ver |-> 0, tag |-> 0]

\* Slip: one policy prior built before the loop and shared by the conditions.
MutNewPolInfo(r) == [FreePolInfo EXCEPT !.chol_pol_S = r, !.policy_prior = 1]

\* PolicyInfo(hyperparams) with its policy prior: zero arrays.
NewPolInfo(r) == [FreePolInfo EXCEPT !.chol_pol_S = r, !.policy_prior = r]

EmptyHeap ==
    [pi |-> [r \in Refs |-> FreePolInfo],
     arr |-> [r \in Refs |-> ZeroVec],
     prior |-> [r \in Refs |-> FreePrior]]

\* The value of a PolicyInfo object with everything it references.
Deref(h, r) ==
    IF r = 0 THEN [obj |-> FreePolInfo, chol |-> ZeroVec, prior |-> FreePrior]
    ELSE [obj |-> [h.pi[r] EXCEPT !.chol_pol_S = 0, !.policy_prior = 0],
          chol |-> IF h.pi[r].chol_pol_S = 0 THEN ZeroVec ELSE h.arr[h.pi[r].chol_pol_S],
          prior |-> IF h.pi[r].policy_prior = 0 THEN FreePrior
                    ELSE h.prior[h.pi[r].policy_prior]]

\* pol_info.traj_distr(): the fitted policy as a linear-Gaussian controller
PolTrajDistr(h, r) == Ctrl("nn", IF r = 0 THEN 0 ELSE h.pi[r].pol_K)

\* ------------------------------------------- collaborators outside the tree
\* Algorithm._eval_cost: the sample-mean cost of a sample list per timestep.
EvalCost(tag) == [t \in Steps |-> IF t < tag THEN 5 ELSE 4]

\* Algorithm._update_dynamics: the dynamics fitted to a sample list.
FitDynamics(tag) == tag

\* traj_opt.estimate_cost(traj_distr, traj_info): a pure function of both,
\* per timestep.
EstimateCost(distr, info) == [t \in Steps |-> info.cc[t] - distr.gain]

\* policy_opt.prob(obs)[:2]: depends on the policy's training state.
Prob(po, tag) == [ver |-> po.version, obs |-> tag]

\* policy_prior.update(samples, policy_opt, mode)
PriorUpdate(pr, tag, po) == [ver |-> po.version, tag |-> tag]

\* policy_prior.fit(X, pol_mu, pol_sig): the linearization of the policy
\* around the samples; bad is the first timestep whose covariance is not
\* positive definite (T: none).
PriorFit(po, m, bad) ==
    [K |-> po.target[m].gain, k |-> po.target[m].gain,
     S |-> [t \in Steps |-> [ver |-> po.version + 1, pd |-> t # bad]]]

\* sp.linalg.cholesky of a positive definite matrix
Chol(S) == S.ver

\* policy_opt.update(X, mu, prc, K, k, initial_policy)
PolicyOptUpdate(po, call) == [version |-> po.version + 1, target |-> call.K]

Clamp(x) ==
    IF x > max_step_mult THEN max_step_mult
    ELSE IF x < min_step_mult THEN min_step_mult ELSE x

\* Slip: the new multiplier is not clamped.
MutSetNewMult(predicted_impr, actual_impr, old) ==
    IF actual_impr < predicted_impr - Tolerance THEN old \div ShrinkDen
    ELSE IF actual_impr > predicted_impr THEN old * GrowNum
    ELSE old

\* Algorithm._set_new_mult(predicted_impr, actual_impr, m): the new value of
\* cur[m].step_mult.
SetNewMult(predicted_impr, actual_impr, old) ==
    IF actual_impr < predicted_impr - Tolerance THEN Clamp(old \div ShrinkDen)
    ELSE IF actual_impr > predicted_impr THEN Clamp(old * GrowNum)
    ELSE Clamp(old)

\* Slip: the reinitialized cur does not take over the step multiplier.
MutBaseAdvance(c, ntd) ==
    [prev |-> [m \in Conds |-> [c[m] EXCEPT !.new_traj_distr = ntd[m]]],
     cur |-> [m \in Conds |->
                [IterationData EXCEPT !.traj_info.dynamics = c[m].traj_info.dynamics,
                                      !.traj_distr = ntd[m]]]]

\* Algorithm._advance_iteration_variables: cur moves to prev, cur is
\* reinitialized and keeps the dynamics, the step multiplier and the new
\* controller.
BaseAdvance(c, ntd) ==
    [prev |-> [m \in Conds |-> [c[m] EXCEPT !.new_traj_distr = ntd[m]]],
     cur |-> [m \in Conds |->
                [IterationData EXCEPT !.traj_info.dynamics = c[m].traj_info.dynamics,
                                      !.step_mult = c[m].step_mult,
                                      !.traj_distr = ntd[m]]]]

\* ------------------------------------------------------ iteration(): order
Ph(name, m) == [ph |-> name, m |-> m]

\* Slip: the bootstrap is not restricted to the first iteration.
MutAfterDynamicsUpdate(ic) == IF ic >= 0 THEN "PolicyBootstrap" ELSE "PolicyFit"

\* lines 57-62: if self.iteration_count == 0
AfterDynamicsUpdate(ic) == IF ic = 0 THEN "PolicyBootstrap" ELSE "PolicyFit"

\* Slip: the step adjustment also runs in the first iteration.
MutAfterPolicyFit(ic) == IF ic >= 0 THEN "StepAdjust" ELSE "TrajectoryOptimize"

\* lines 69-72: if self.iteration_count > 0
AfterPolicyFit(ic) == IF ic > 0 THEN "StepAdjust" ELSE "TrajectoryOptimize"

\* Slip: the S-step is left out.
MutAfterTrajectoryOptimize == "Advance"

\* lines 72-76
AfterTrajectoryOptimize == "PolicyUpdate"

\* lines 76-79
AfterPolicyUpdate == "Advance"

\* ------------------------------------------------------------ _update_policy
\* The arguments handed to policy_opt.update.
\* samples[n].get_X(): the states of sample n of a list.
GetX(sl, m, n) == [m |-> m, n |-> n, tag |-> sl.tag]

\* line 84 and lines 105-106: N is the length of the list of condition 0, and
\* samples[n] with n past the end of a shorter list raises IndexError.
UpdatePolicyRaises(c) ==
    \E m \in Conds : c[m].sample_list.N < c[0].sample_list.N

UpdatePolicyCall(c, ntd, initial_policy) ==
    LET N == c[0].sample_list.N
    IN  [initial_policy |-> initial_policy,
         N |-> N,
         K |-> [m \in Conds |-> ntd[m]],
         X |-> [m \in Conds |->
                  [n \in 0 .. N - 1 |-> GetX(c[m].sample_list, m, n)]],
         mu |-> [m \in Conds |->
                  [n \in 0 .. N - 1 |->
                      [K |-> ntd[m], X |-> GetX(c[m].sample_list, m, n)]]]]

NoUpdate ==
    [initial_policy |-> FALSE, N |-> 0, K |-> [m \in Conds |-> NoCtrl],
     X |-> [m \in Conds |-> <<>>], mu |-> [m \in Conds |-> <<>>]]

\* -------------------------------------------------------- _update_policy_fit
\* The heap after _update_policy_fit(m) on the PolicyInfo r; the Cholesky
\* loop stops at timestep bad, where the factorization raises.
UpdatePolicyFit(h, r, po, m, tag, bad) ==
    LET fit == PriorFit(po, m, bad)
        a == h.pi[r].chol_pol_S
        p == h.pi[r].policy_prior
    IN  [pi |-> [h.pi EXCEPT ![r].pol_mu = Prob(po, tag),
                             ![r].pol_sig = Prob(po, tag),
                             ![r].pol_K = fit.K,
                             ![r].pol_k = fit.k,
                             ![r].pol_S = fit.S],
         arr |-> [h.arr EXCEPT ![a] =
                    [t \in Steps |-> IF t < bad THEN Chol(fit.S[t]) ELSE h.arr[a][t]]],
         prior |-> [h.prior EXCEPT ![p] = PriorUpdate(h.prior[p], tag, po)]]

\* ---------------------------------------------- _advance_iteration_variables
Fresh(used) == CHOOSE r \in Refs \ used : \A q \in Refs \ used : r <= q

\* Objects no PolicyInfo in live reaches are dropped.
Collect(h, live) ==
    [pi |-> [r \in Refs |-> IF r \in live THEN h.pi[r] ELSE FreePolInfo],
     arr |-> [r \in Refs |->
                IF \E q \in live : h.pi[q].chol_pol_S = r THEN h.arr[r] ELSE ZeroVec],
     prior |-> [r \in Refs |->
                IF \E q \in live : h.pi[q].policy_prior = r THEN h.prior[r]
                ELSE FreePrior]]

\* Slip: copy.copy instead of copy.deepcopy; the array and the prior are shared.
ShallowCopyPolInfo(h, src, dst) ==
    [ref |-> dst,
     heap |-> [h EXCEPT !.pi = [h.pi EXCEPT ![dst] = h.pi[src]]]]

\* Slip: no copy at all; cur and prev reference one PolicyInfo.
AliasPolInfo(h, src, dst) == [ref |-> src, heap |-> h]

\* line 172: copy.deepcopy(self.prev[m].pol_info), the copy placed at dst
CopyPolInfo(h, src, dst) ==
    [ref |-> dst,
     heap |-> [pi |-> [h.pi EXCEPT ![dst] =
                         [h.pi[src] EXCEPT !.chol_pol_S = dst, !.policy_prior = dst]],
               arr |-> [h.arr EXCEPT ![dst] = h.arr[h.pi[src].chol_pol_S]],
               prior |-> [h.prior EXCEPT ![dst] = h.prior[h.pi[src].policy_prior]]]]

\* lines 170-171
CarryKlStep(ti, prev_ti) == [ti EXCEPT !.last_kl_step = prev_ti.last_kl_step]

RECURSIVE AdvanceLoop(_, _, _, _)
\* lines 169-172: for m in range(self.M)
AdvanceLoop(c, p, h, m) ==
    IF m >= M THEN [cur |-> c, heap |-> h]
    ELSE LET used == {p[q].pol_info : q \in Conds}
                        \cup {c[q].pol_info : q \in 0 .. (m - 1)}
             cp == CopyPolInfo(h, p[m].pol_info, Fresh(used))
             c1 == [c EXCEPT ![m].traj_info = CarryKlStep(c[m].traj_info, p[m].traj_info),
                             ![m].pol_info = cp.ref]
         IN  AdvanceLoop(c1, p, cp.heap, m + 1)

\* lines 163-172
AdvanceIterationVariables(c, ntd, h) ==
    LET base == BaseAdvance(c, ntd)
        kept == Collect(h, {base.prev[q].pol_info : q \in Conds})
        done == AdvanceLoop(base.cur, base.prev, kept, 0)
    IN  [prev |-> base.prev, cur |-> done.cur,
         heap |-> Collect(done.heap, {base.prev[q].pol_info : q \in Conds}
                                      \cup {done.cur[q].pol_info : q \in Conds})]

\* ---------------------------------------------------------------- _stepadjust
\* lines 184-201
PrevLaplace(h, p) ==
    [m \in Conds |->
        SumVec(EstimateCost(PolTrajDistr(h, p[m].pol_info), p[m].traj_info))]
PrevMc(p) == [m \in Conds |-> SumVec(p[m].cs)]
PrevPredicted(p) ==
    [m \in Conds |-> SumVec(EstimateCost(p[m].new_traj_distr, p[m].traj_info))]

\* lines 204-213
CurLaplace(h, c) ==
    [m \in Conds |->
        SumVec(EstimateCost(PolTrajDistr(h, c[m].pol_info), c[m].traj_info))]
CurMc(c) == [m \in Conds |-> SumVec(c[m].cs)]

\* Slip: the 'mc' branch takes the Laplace estimate as the previous cost.
MutImprovements(rule, h, c, p) ==
    LET prev_laplace == SumConds(PrevLaplace(h, p))
        prev_predicted == SumConds(PrevPredicted(p))
        cur_laplace == SumConds(CurLaplace(h, c))
        cur_mc == SumConds(CurMc(c))
    IN  IF rule = "laplace"
        THEN [bound |-> TRUE, predicted |-> prev_laplace - prev_predicted,
              actual |-> prev_laplace - cur_laplace]
        ELSE IF rule = "mc"
        THEN [bound |-> TRUE, predicted |-> prev_laplace - prev_predicted,
              actual |-> prev_laplace - cur_mc]
        ELSE [bound |-> FALSE, predicted |-> 0, actual |-> 0]

\* Slip: a plain else instead of the elif, every other rule is taken as 'mc'.
MutImprovementsElse(rule, h, c, p) ==
    LET prev_laplace == SumConds(PrevLaplace(h, p))
        prev_mc == SumConds(PrevMc(p))
        prev_predicted == SumConds(PrevPredicted(p))
        cur_laplace == SumConds(CurLaplace(h, c))
        cur_mc == SumConds(CurMc(c))
    IN  IF rule = "laplace"
        THEN [bound |-> TRUE, predicted |-> prev_laplace - prev_predicted,
              actual |-> prev_laplace - cur_laplace]
        ELSE [bound |-> TRUE, predicted |-> prev_mc - prev_predicted,
              actual |-> prev_mc - cur_mc]

\* lines 215-226: predicted_impr and actual_impr, times M; bound is FALSE
\* when neither branch assigns them.
Improvements(rule, h, c, p) ==
    LET prev_laplace == SumConds(PrevLaplace(h, p))
        prev_mc == SumConds(PrevMc(p))
        prev_predicted == SumConds(PrevPredicted(p))
        cur_laplace == SumConds(CurLaplace(h, c))
        cur_mc == SumConds(CurMc(c))
    IN  IF rule = "laplace"
        THEN [bound |-> TRUE, predicted |-> prev_laplace - prev_predicted,
              actual |-> prev_laplace - cur_laplace]
        ELSE IF rule = "mc"
        THEN [bound |-> TRUE, predicted |-> prev_mc - prev_predicted,
              actual |-> prev_mc - cur_mc]
        ELSE [bound |-> FALSE, predicted |-> 0, actual |-> 0]

NoImpr == [bound |-> FALSE, predicted |-> 0, actual |-> 0]

\* lines 233-234: the calls _set_new_mult(predicted_impr, actual_impr, m), in
\* the order made.
SetNewMultCalls(impr) ==
    [i \in 1 .. M |->
        [m |-> i - 1, predicted |-> impr.predicted, actual |-> impr.actual]]

\* Slip: only condition 0 gets the new multiplier.
MutSetAllMults(c, impr) ==
    [m \in Conds |->
        IF m = 0
        THEN [c[m] EXCEPT !.step_mult =
                SetNewMult(impr.predicted, impr.actual, c[m].step_mult)]
        ELSE c[m]]

\* lines 233-234: for m in range(self.M): self._set_new_mult(...)
SetAllMults(c, impr) ==
    [m \in Conds |->
        [c[m] EXCEPT !.step_mult = SetNewMult(impr.predicted, impr.actual, c[m].step_mult)]]

\* ------------------------------------------------------------------- state
\* No library function is being evaluated.
NoArgs == [fn |-> "none"]
NoRet == [raised |-> "pending"]

Init ==
    /\ iteration_count = 0
    /\ cur = [m \in Conds |->
                [IterationData EXCEPT !.traj_distr = InitTrajDistr, !.pol_info = m + 1]]
    /\ prev = [m \in Conds |-> IterationData]
    /\ new_traj_distr = [m \in Conds |-> NoCtrl]
    /\ heap = [EmptyHeap EXCEPT
                 !.pi = [r \in Refs |-> IF r <= M THEN NewPolInfo(r) ELSE FreePolInfo]]
    /\ policy_opt = [version |-> 0, target |-> [m \in Conds |-> NoCtrl]]
    /\ step_rule \in StepRules
    /\ sample_lists = [m \in Conds |-> EmptySampleList]
    /\ pc = "Idle"
    /\ idx = 0
    /\ call_iter = 0
    /\ phase_log = <<>>
    /\ last_update = NoUpdate
    /\ n_initial = 0
    /\ last_impr = NoImpr
    /\ mult_calls = <<>>
    /\ fn_args = NoArgs
    /\ fn_ret = NoRet

\* The caller enters iteration(sample_lists, _).
Call ==
    /\ pc = "Idle"
    /\ iteration_count < MaxIter
    /\ \E sl \in SampleProfiles : sample_lists' = sl
    /\ pc' = "StoreEval"
    /\ idx' = 0
    /\ call_iter' = iteration_count
    /\ phase_log' = <<>>
    /\ UNCHANGED <<iteration_count, cur, prev, new_traj_distr, heap, policy_opt,
                   step_rule, last_update, n_initial, last_impr>>
    /\ UNCHANGED <<mult_calls, fn_args, fn_ret>>

\* lines 50-52, one pass of the loop
StoreEval ==
    /\ pc = "StoreEval"
    /\ cur' = [cur EXCEPT ![idx].sample_list = sample_lists[idx],
                          ![idx].cs = EvalCost(sample_lists[idx].tag),
                          ![idx].traj_info.cc = EvalCost(sample_lists[idx].tag)]
    /\ phase_log' = Append(phase_log, Ph("StoreEval", idx))
    /\ IF idx + 1 < M
       THEN pc' = pc /\ idx' = idx + 1
       ELSE pc' = "DynamicsUpdate" /\ idx' = 0
    /\ UNCHANGED <<iteration_count, prev, new_traj_distr, heap, policy_opt,
                   step_rule, sample_lists, call_iter, last_update, n_initial,
                   last_impr>>
    /\ UNCHANGED <<mult_calls, fn_args, fn_ret>>

\* line 55
DynamicsUpdate ==
    /\ pc = "DynamicsUpdate"
    /\ cur' = [m \in Conds |->
                 [cur[m] EXCEPT !.traj_info.dynamics = FitDynamics(cur[m].sample_list.tag)]]
    /\ phase_log' = Append(phase_log, Ph("DynamicsUpdate", -1))
    /\ pc' = AfterDynamicsUpdate(iteration_count)
    /\ idx' = 0
    /\ UNCHANGED <<iteration_count, prev, new_traj_distr, heap, policy_opt,
                   step_rule, sample_lists, call_iter, last_update, n_initial,
                   last_impr>>
    /\ UNCHANGED <<mult_calls, fn_args, fn_ret>>

\* lines 59-62
PolicyBootstrap ==
    /\ pc = "PolicyBootstrap"
    /\ new_traj_distr' = [cond \in Conds |-> cur[cond].traj_distr]
    /\ IF UpdatePolicyRaises(cur)
       THEN /\ pc' = "Raised"
            /\ UNCHANGED <<policy_opt, last_update>>
       ELSE /\ LET call == UpdatePolicyCall(cur, new_traj_distr', TRUE)
               IN  /\ policy_opt' = PolicyOptUpdate(policy_opt, call)
                   /\ last_update' = call
            /\ pc' = "PolicyFit"
    /\ n_initial' = n_initial + 1
    /\ phase_log' = Append(phase_log, Ph("PolicyBootstrap", -1))
    /\ idx' = 0
    /\ UNCHANGED <<iteration_count, cur, prev, heap, step_rule, sample_lists,
                   call_iter, last_impr>>
    /\ UNCHANGED <<mult_calls, fn_args, fn_ret>>

\* Slip: the factorization error is swallowed and the loop goes on.
MutPolicyFit ==
    /\ pc = "PolicyFit"
    /\ \E bad \in 0 .. T :
          /\ heap' = UpdatePolicyFit(heap, cur[idx].pol_info, policy_opt, idx,
                                     cur[idx].sample_list.tag, bad)
          /\ IF idx + 1 < M
             THEN pc' = pc /\ idx' = idx + 1
             ELSE pc' = AfterPolicyFit(iteration_count) /\ idx' = 0
    /\ phase_log' = Append(phase_log, Ph("PolicyFit", idx))
    /\ UNCHANGED <<iteration_count, cur, prev, new_traj_distr, policy_opt,
                   step_rule, sample_lists, call_iter, last_update, n_initial,
                   last_impr>>
    /\ UNCHANGED <<mult_calls, fn_args, fn_ret>>

\* lines 66-67, one pass of the loop: _update_policy_fit(m)
PolicyFit ==
    /\ pc = "PolicyFit"
    /\ \E bad \in 0 .. T :
          /\ heap' = UpdatePolicyFit(heap, cur[idx].pol_info, policy_opt, idx,
                                     cur[idx].sample_list.tag, bad)
          /\ IF bad < T
             THEN pc' = "Raised" /\ idx' = idx
             ELSE IF idx + 1 < M
             THEN pc' = pc /\ idx' = idx + 1
             ELSE pc' = AfterPolicyFit(iteration_count) /\ idx' = 0
    /\ phase_log' = Append(phase_log, Ph("PolicyFit", idx))
    /\ UNCHANGED <<iteration_count, cur, prev, new_traj_distr, policy_opt,
                   step_rule, sample_lists, call_iter, last_update, n_initial,
                   last_impr>>
    /\ UNCHANGED <<mult_calls, fn_args, fn_ret>>

\* line 71: _stepadjust()
StepAdjust ==
    /\ pc = "StepAdjust"
    /\ LET impr == Improvements(step_rule, heap, cur, prev)
       IN  IF impr.bound
           THEN /\ cur' = SetAllMults(cur, impr)
                /\ mult_calls' = SetNewMultCalls(impr)
                /\ last_impr' = impr
                /\ pc' = "TrajectoryOptimize"
           ELSE /\ UNCHANGED <<cur, last_impr, mult_calls>>
                /\ pc' = "Raised"
    /\ phase_log' = Append(phase_log, Ph("StepAdjust", -1))
    /\ idx' = 0
    /\ UNCHANGED <<iteration_count, prev, new_traj_distr, heap, policy_opt,
                   step_rule, sample_lists, call_iter, last_update, n_initial>>
    /\ UNCHANGED fnvars

\* line 72: _update_trajectories() sets new_traj_distr and the KL step used.
TrajectoryOptimize ==
    /\ pc = "TrajectoryOptimize"
    /\ \E g \in GainProfiles :
          new_traj_distr' = [m \in Conds |-> Ctrl("lqr", g[m])]
    /\ cur' = [m \in Conds |->
                 [cur[m] EXCEPT !.traj_info.last_kl_step = cur[m].step_mult]]
    /\ phase_log' = Append(phase_log, Ph("TrajectoryOptimize", -1))
    /\ pc' = AfterTrajectoryOptimize
    /\ idx' = 0
    /\ UNCHANGED <<iteration_count, prev, heap, policy_opt, step_rule,
                   sample_lists, call_iter, last_update, n_initial, last_impr>>
    /\ UNCHANGED <<mult_calls, fn_args, fn_ret>>

\* line 76: _update_policy()
PolicyUpdate ==
    /\ pc = "PolicyUpdate"
    /\ IF UpdatePolicyRaises(cur)
       THEN /\ pc' = "Raised"
            /\ UNCHANGED <<policy_opt, last_update>>
       ELSE /\ LET call == UpdatePolicyCall(cur, new_traj_distr, FALSE)
               IN  /\ policy_opt' = PolicyOptUpdate(policy_opt, call)
                   /\ last_update' = call
            /\ pc' = AfterPolicyUpdate
    /\ phase_log' = Append(phase_log, Ph("PolicyUpdate", -1))
    /\ idx' = 0
    /\ UNCHANGED <<iteration_count, cur, prev, new_traj_distr, heap, step_rule,
                   sample_lists, call_iter, n_initial, last_impr>>
    /\ UNCHANGED <<mult_calls, fn_args, fn_ret>>

\* line 79: _advance_iteration_variables(); iteration() returns.
Advance ==
    /\ pc = "Advance"
    /\ LET adv == AdvanceIterationVariables(cur, new_traj_distr, heap)
       IN  /\ cur' = adv.cur
           /\ prev' = adv.prev
           /\ heap' = adv.heap
    /\ iteration_count' = iteration_count + 1
    /\ phase_log' = Append(phase_log, Ph("Advance", -1))
    /\ pc' = "Idle"
    /\ idx' = 0
    /\ sample_lists' = [m \in Conds |-> EmptySampleList]
    /\ last_impr' = NoImpr
    /\ mult_calls' = <<>>
    /\ UNCHANGED <<new_traj_distr, policy_opt, step_rule, call_iter, last_update,
                   n_initial>>
    /\ UNCHANGED fnvars

Next ==
    \/ Call
    \/ StoreEval
    \/ DynamicsUpdate
    \/ PolicyBootstrap
    \/ PolicyFit
    \/ StepAdjust
    \/ TrajectoryOptimize
    \/ PolicyUpdate
    \/ Advance

Spec == Init /\ [][Next]_vars

\* ------------------------------------------------------------------ claims
LoopPhases(name) == [i \in 1 .. M |-> Ph(name, i - 1)]

\* The phases of one complete call entered with iteration_count = ic.
ExpectedPhases(ic) ==
    LoopPhases("StoreEval") \o <<Ph("DynamicsUpdate", -1)>>
        \o (IF ic = 0 THEN <<Ph("PolicyBootstrap", -1)>> ELSE <<>>)
        \o LoopPhases("PolicyFit")
        \o (IF ic > 0 THEN <<Ph("StepAdjust", -1)>> ELSE <<>>)
        \o <<Ph("TrajectoryOptimize", -1), Ph("PolicyUpdate", -1), Ph("Advance", -1)>>

IsPrefix(s, t) == Len(s) <= Len(t) /\ s = SubSeq(t, 1, Len(s))

CountPh(log, name) == Cardinality({i \in 1 .. Len(log) : log[i].ph = name})

\* C1: within one call of iteration() the phases run in the order store/eval
\* cost per condition, DynamicsUpdate, PolicyBootstrap (iteration_count = 0
\* only), PolicyFit per condition, StepAdjust (iteration_count > 0 only),
\* TrajectoryOptimize, PolicyUpdate, Advance, each at most once; a returned
\* call has run all of them, Advance last and exactly once, and only Advance
\* moves the iteration counter.
C1_PhaseOrder ==
    /\ IsPrefix(phase_log, ExpectedPhases(call_iter))
    /\ pc = "Idle" =>
          \/ iteration_count = 0 /\ phase_log = <<>>
          \/ /\ phase_log = ExpectedPhases(call_iter)
             /\ iteration_count = call_iter + 1
             /\ CountPh(phase_log, "Advance") = 1
    /\ pc # "Idle" =>
          /\ iteration_count = call_iter
          /\ CountPh(phase_log, "Advance") = 0

\* A second call has returned: its log holds StepAdjust and ends with Advance.
C1_Witness ==
    /\ pc = "Idle"
    /\ iteration_count = 2
    /\ Len(phase_log) = 2 * M + 5
    /\ phase_log[Len(phase_log)].ph = "Advance"

\* The number of bootstrap updates so far: none before PolicyBootstrap of the
\* first call, one ever after.
C2_Count ==
    n_initial =
        IF iteration_count = 0
            /\ pc \in {"Idle", "StoreEval", "DynamicsUpdate", "PolicyBootstrap"}
        THEN 0 ELSE 1

\* What a step that calls policy_opt.update must look like.
C2_Step ==
    policy_opt'.version # policy_opt.version =>
        IF last_update'.initial_policy
        THEN /\ iteration_count = 0
             /\ n_initial = 0 /\ n_initial' = 1
             /\ phase_log # <<>>
             /\ phase_log[Len(phase_log)].ph = "DynamicsUpdate"
             /\ CountPh(phase_log, "PolicyFit") = 0
             /\ pc' = "PolicyFit"
             /\ \A m \in Conds :
                   /\ new_traj_distr'[m] = cur[m].traj_distr
                   /\ last_update'.K[m] = cur[m].traj_distr
                   /\ cur[m].traj_distr = InitTrajDistr
        ELSE /\ n_initial' = n_initial
             /\ pc # "PolicyBootstrap"

C3_StepAdjustPlace ==
    /\ CountPh(phase_log, "StepAdjust") <= 1
    /\ call_iter = 0 =>
          /\ CountPh(phase_log, "StepAdjust") = 0
          /\ \A m \in Conds : cur[m].step_mult = InitStepMult
    /\ \A i \in 1 .. Len(phase_log) :
          /\ phase_log[i].ph = "StepAdjust" =>
                /\ i > 1
                /\ phase_log[i - 1] = Ph("PolicyFit", M - 1)
                /\ CountPh(SubSeq(phase_log, 1, i), "PolicyFit") = M
          /\ (phase_log[i].ph = "TrajectoryOptimize" /\ call_iter > 0) =>
                /\ i > 1
                /\ phase_log[i - 1].ph = "StepAdjust"

\* StepAdjust has run in the second call and changed a multiplier.
C3_Witness ==
    /\ pc = "TrajectoryOptimize"
    /\ call_iter = 1
    /\ CountPh(phase_log, "StepAdjust") = 1
    /\ cur[0].step_mult # InitStepMult

\* Every object the PolicyInfo r reaches, itself included.
Reach(h, r) ==
    IF r = 0 THEN {}
    ELSE {<<"pi", r>>, <<"arr", h.pi[r].chol_pol_S>>, <<"prior", h.pi[r].policy_prior>>}

\* C4 (state part): when _advance_iteration_variables has returned, every
\* cur[m].pol_info equals prev[m].pol_info in value, shares no object with
\* any prev PolicyInfo, and cur[m].traj_info.last_kl_step is prev's.
C4_AfterAdvance ==
    (pc = "Idle" /\ iteration_count > 0) =>
        \A m \in Conds :
            /\ Deref(heap, cur[m].pol_info) = Deref(heap, prev[m].pol_info)
            /\ \A q \in Conds :
                  Reach(heap, cur[m].pol_info) \cap Reach(heap, prev[q].pol_info) = {}
            /\ cur[m].traj_info.last_kl_step = prev[m].traj_info.last_kl_step

\* C4 (step part): a pass of _update_policy_fit leaves the value of every
\* prev[m].pol_info as it was.
C4_FitStep ==
    pc = "PolicyFit" =>
        \A m \in Conds :
            Deref(heap', prev[m].pol_info) = Deref(heap, prev[m].pol_info)

\* C4: after Advance cur[m].pol_info is a deep copy of prev[m].pol_info and
\* last_kl_step is carried over, so the writes of the next iteration's
\* _update_policy_fit never change prev[m].pol_info.
C4_DeepCopy == [](C4_AfterAdvance) /\ [][C4_FitStep]_vars

\* In the second call _update_policy_fit has rewritten cur[0].pol_info, the
\* factor array included, and prev[0].pol_info holds the earlier fit.
C4_Witness ==
    /\ pc = "StepAdjust"
    /\ iteration_count = 1
    /\ Deref(heap, prev[0].pol_info).obj.pol_S[0].ver > 0
    /\ Deref(heap, cur[0].pol_info).obj # Deref(heap, prev[0].pol_info).obj
    /\ Deref(heap, cur[0].pol_info).chol # Deref(heap, prev[0].pol_info).chol
    /\ Deref(heap, cur[0].pol_info).prior # Deref(heap, prev[0].pol_info).prior

\* prev with the PolicyInfo objects it references, by value.
PrevValue ==
    [m \in Conds |-> [data |-> prev[m], pol |-> Deref(heap, prev[m].pol_info)]]

\* A step other than Advance keeps prev; Advance replaces every condition's.
C5_Step ==
    IF pc = "Advance"
    THEN \A m \in Conds :
            /\ prev'[m].sample_list = cur[m].sample_list
            /\ prev'[m].cs = cur[m].cs
    ELSE PrevValue' = PrevValue

\* C5: from the entry of an iteration() call up to its Advance no phase
\* changes prev[m] or anything it references; prev changes only in the
\* Advance step, which replaces it for all conditions at once.
C5_PrevReadOnly == [][C5_Step]_vars

\* The second call has passed cost evaluation, dynamics update and the policy
\* fits with prev populated and different from cur.
C5_Witness ==
    /\ pc = "TrajectoryOptimize"
    /\ iteration_count = 1
    /\ last_impr.bound
    /\ prev[0].sample_list.N > 0
    /\ prev[0].cs # cur[0].cs
    /\ Deref(heap, cur[0].pol_info) # Deref(heap, prev[0].pol_info)

StepMults == [m \in Conds |-> cur[m].step_mult]

\* C6: no phase other than StepAdjust changes a step multiplier, so the value
\* a condition has when one iteration ends is the value the next iteration's
\* StepAdjust starts from.
C6_OnlyStepAdjust == [][pc # "StepAdjust" => StepMults' = StepMults]_vars

\* The third call is about to adjust a multiplier that the second call's
\* StepAdjust set and that was carried through Advance.
C6_Witness ==
    /\ pc = "StepAdjust"
    /\ iteration_count = 2
    /\ cur[0].step_mult # InitStepMult
    /\ cur[0].step_mult = prev[0].step_mult

\* C7: every condition's step multiplier lies in [min_step_mult,
\* max_step_mult] in every reachable state.
C7_Clamped ==
    \A m \in Conds :
        /\ min_step_mult <= cur[m].step_mult /\ cur[m].step_mult <= max_step_mult
        /\ min_step_mult <= prev[m].step_mult /\ prev[m].step_mult <= max_step_mult

\* A multiplier already at max_step_mult went through a StepAdjust that
\* asked for growth and stayed at the bound.
C7_Witness ==
    /\ pc = "TrajectoryOptimize"
    /\ last_impr.bound
    /\ last_impr.actual > last_impr.predicted
    /\ prev[0].step_mult * GrowNum > max_step_mult
    /\ cur[0].step_mult = max_step_mult

\* C8: in every StepAdjust, actual_impr >= predicted_impr gives a multiplier
\* not below the previous one, and actual_impr < 0 gives a multiplier not
\* above the previous one.
C8_Monotone ==
    [][(pc = "StepAdjust" /\ last_impr'.bound) =>
          \A m \in Conds :
              /\ last_impr'.actual >= last_impr'.predicted =>
                    cur'[m].step_mult >= cur[m].step_mult
              /\ last_impr'.actual < 0 =>
                    cur'[m].step_mult <= cur[m].step_mult]_vars

RECURSIVE C9_Total(_, _)
C9_Total(f, S) ==
    IF S = {} THEN 0
    ELSE LET m == CHOOSE x \in S : TRUE IN f[m] + C9_Total(f, S \ {m})

C9_Time(v) == C9_Total(v, Steps)
C9_PrevMc == C9_Total([m \in Conds |-> C9_Time(prev[m].cs)], Conds)
C9_CurMc == C9_Total([m \in Conds |-> C9_Time(cur[m].cs)], Conds)
C9_PrevPredicted ==
    C9_Total([m \in Conds |->
                C9_Time(EstimateCost(prev[m].new_traj_distr, prev[m].traj_info))], Conds)
C9_PrevLaplace ==
    C9_Total([m \in Conds |->
                C9_Time(EstimateCost(Ctrl("nn", heap.pi[prev[m].pol_info].pol_K),
                                     prev[m].traj_info))], Conds)
C9_CurLaplace ==
    C9_Total([m \in Conds |->
                C9_Time(EstimateCost(Ctrl("nn", heap.pi[cur[m].pol_info].pol_K),
                                     cur[m].traj_info))], Conds)

\* C9: the improvements _stepadjust hands to _set_new_mult are, by step_rule,
\* 'mc': prev_mc - prev_predicted and prev_mc - cur_mc; 'laplace':
\* prev_laplace - prev_predicted and prev_laplace - cur_laplace; each cost
\* summed over time and averaged over conditions (here: M times the mean),
\* prev_predicted being the estimate for prev[m].new_traj_distr under
\* prev[m].traj_info.  With 'mc' and means 10, 8, 9 they are 2 and 1.
C9_Improvements ==
    (pc = "TrajectoryOptimize" /\ last_impr.bound) =>
        /\ step_rule = "mc" =>
              /\ last_impr.predicted = C9_PrevMc - C9_PrevPredicted
              /\ last_impr.actual = C9_PrevMc - C9_CurMc
        /\ step_rule = "laplace" =>
              /\ last_impr.predicted = C9_PrevLaplace - C9_PrevPredicted
              /\ last_impr.actual = C9_PrevLaplace - C9_CurLaplace
        /\ (/\ step_rule = "mc"
            /\ C9_PrevMc = 10 * M
            /\ C9_PrevPredicted = 8 * M
            /\ C9_CurMc = 9 * M) =>
              /\ last_impr.predicted = 2 * M
              /\ last_impr.actual = 1 * M

\* The scenario prev_mc = 10, prev_predicted = 8, cur_mc = 9 under 'mc', with
\* a Laplace estimate that differs from the Monte-Carlo cost.
C9_Witness ==
    /\ pc = "TrajectoryOptimize"
    /\ last_impr.bound
    /\ step_rule = "mc"
    /\ C9_PrevMc = 10 * M
    /\ C9_PrevPredicted = 8 * M
    /\ C9_CurMc = 9 * M
    /\ C9_PrevLaplace # C9_PrevMc
    /\ last_impr.predicted = 2 * M
    /\ last_impr.actual = 1 * M

\* ------------------------------------------------------ sample-count mismatch
\* The conditions whose sample list has as many samples as the previous
\* iteration's.
C11_Matching == {m \in Conds : cur[m].sample_list.N = prev[m].sample_list.N}

\* The predicted and the actual improvement of one condition under step_rule.
C11_Predicted(m) ==
    (IF step_rule = "laplace" THEN PrevLaplace(heap, prev)[m] ELSE PrevMc(prev)[m])
        - PrevPredicted(prev)[m]
C11_Actual(m) ==
    IF step_rule = "laplace"
    THEN PrevLaplace(heap, prev)[m] - CurLaplace(heap, cur)[m]
    ELSE PrevMc(prev)[m] - CurMc(cur)[m]

\* C11: in StepAdjust a condition whose sample count differs from the previous
\* iteration's keeps its step multiplier and is left out of the comparison
\* (the improvements are the means over the matching conditions only), the
\* matching conditions are compared and updated, and the iteration goes on.
C11_MismatchSkipped ==
    [][(pc = "StepAdjust" /\ step_rule \in {"laplace", "mc"}) =>
          /\ pc' = "TrajectoryOptimize"
          /\ \A m \in Conds \ C11_Matching : cur'[m].step_mult = cur[m].step_mult
          /\ C11_Matching # {} =>
                /\ last_impr'.predicted * Cardinality(C11_Matching)
                      = M * C9_Total([m \in Conds |-> C11_Predicted(m)], C11_Matching)
                /\ last_impr'.actual * Cardinality(C11_Matching)
                      = M * C9_Total([m \in Conds |-> C11_Actual(m)], C11_Matching)
                /\ \A m \in C11_Matching :
                      cur'[m].step_mult =
                          SetNewMult(last_impr'.predicted, last_impr'.actual,
                                     cur[m].step_mult)]_vars

\* ------------------------------------------------------------ unknown step_rule
\* C12: with a step_rule other than 'laplace' and 'mc', StepAdjust raises
\* (predicted_impr is unbound at the first _set_new_mult call) instead of
\* taking some rule, no _set_new_mult call is made and no condition's step
\* multiplier has changed.
C12_UnknownRuleFails ==
    [][(pc = "StepAdjust" /\ step_rule \notin {"laplace", "mc"}) =>
          /\ pc' = "Raised"
          /\ StepMults' = StepMults
          /\ mult_calls' = <<>>
          /\ ~last_impr'.bound]_vars

\* The second call has failed in StepAdjust under the rule 'other'.
C12_Witness ==
    /\ pc = "Raised"
    /\ step_rule = "other"
    /\ iteration_count = 1
    /\ phase_log[Len(phase_log)].ph = "StepAdjust"
    /\ \A m \in Conds : cur[m].step_mult = InitStepMult

\* ------------------------------------------------- one decision for all conditions
\* Every condition has the same step multiplier.
C13_Equal == \A m, q \in Conds : cur[m].step_mult = cur[q].step_mult

\* A successful _stepadjust calls _set_new_mult once per condition, in the
\* order 0..M-1, each time with the improvements of the means over all
\* conditions, and every condition's multiplier is what that call makes of it.
C13_Step ==
    (pc = "StepAdjust" /\ pc' = "TrajectoryOptimize") =>
        /\ Len(mult_calls') = M
        /\ \A i \in 1 .. M :
              /\ mult_calls'[i].m = i - 1
              /\ mult_calls'[i].predicted
                    = C9_Total([m \in Conds |-> C11_Predicted(m)], Conds)
              /\ mult_calls'[i].actual
                    = C9_Total([m \in Conds |-> C11_Actual(m)], Conds)
              /\ cur'[i - 1].step_mult =
                    SetNewMult(mult_calls'[i].predicted, mult_calls'[i].actual,
                               cur[i - 1].step_mult)
        /\ C13_Equal => C13_Equal'

\* C13: _stepadjust takes one decision for all conditions: predicted_impr and
\* actual_impr are means over the conditions and _set_new_mult is called
\* exactly once per condition with that pair, so multipliers that are equal
\* before a StepAdjust are equal after it, and they are equal after any
\* sequence of iterations.
C13_SameDecision == [](C13_Equal) /\ [][C13_Step]_vars

\* A StepAdjust has moved the multipliers of conditions whose own
\* improvements differ, and they moved together.
C13_Witness ==
    /\ pc = "TrajectoryOptimize"
    /\ Len(mult_calls) = M
    /\ C11_Actual(0) # C11_Actual(M - 1)
    /\ cur[0].step_mult # InitStepMult
    /\ cur[0].step_mult = cur[M - 1].step_mult

\* ===================================================================== numbers
\* Floating-point values as exact fractions n/d in lowest terms with d > 0;
\* d = 0 stands for what numpy's division by zero yields: inf (n = 1),
\* -inf (n = -1) and nan (n = 0).
RECURSIVE Gcd(_, _)
Gcd(a, b) == IF b = 0 THEN a ELSE Gcd(b, a % b)

Abs(x) == IF x < 0 THEN -x ELSE x

Sign(x) == IF x > 0 THEN 1 ELSE IF x < 0 THEN -1 ELSE 0

Rat(n, d) ==
    IF d = 0 THEN [n |-> Sign(n), d |-> 0]
    ELSE LET g == Gcd(Abs(n), Abs(d))
         IN  [n |-> (Sign(d) * n) \div g, d |-> Abs(d) \div g]

RInt(i) == [n |-> i, d |-> 1]
RNan == [n |-> 0, d |-> 0]
RFinite(a) == a.d # 0

RNeg(a) == [n |-> -a.n, d |-> a.d]

RAdd(a, b) ==
    IF a.d = 0 /\ b.d = 0 THEN (IF a.n = b.n THEN a ELSE RNan)
    ELSE IF a.d = 0 THEN a
    ELSE IF b.d = 0 THEN b
    ELSE Rat(a.n * b.d + b.n * a.d, a.d * b.d)

RMul(a, b) == Rat(a.n * b.n, a.d * b.d)

\* numpy's true division: x/0 is inf, -inf or nan, with a warning and no error.
RDiv(a, b) ==
    IF b.d = 0 THEN (IF a.d = 0 \/ b.n = 0 THEN RNan ELSE RInt(0))
    ELSE IF a.d = 0 THEN [n |-> a.n * (IF b.n < 0 THEN -1 ELSE 1), d |-> 0]
    ELSE Rat(a.n * b.d, a.d * b.n)

RLess(a, b) == a.n * b.d < b.n * a.d

\* ================================================ cost_utils.get_ramp_multiplier
MaxT == 4

RAMP_CONSTANT == 1
RAMP_LINEAR == 2
RAMP_QUADRATIC == 3
RAMP_FINAL_ONLY == 4

\* The arguments tried: every ramp mode and two tokens that are none, every
\* horizon up to MaxT, and some final multipliers.
RampOptions == 0 .. 5
Horizons == 0 .. MaxT
FinalMultipliers == {RInt(0), RInt(1), RInt(2), Rat(1, 2), RInt(-3)}

\* np.ones(TT), np.zeros(TT), np.arange(TT): arrays indexed 0 .. TT-1
NpOnes(TT) == [t \in 0 .. (TT - 1) |-> RInt(1)]
NpZeros(TT) == [t \in 0 .. (TT - 1) |-> RInt(0)]
NpArange(TT) == [t \in 0 .. (TT - 1) |-> RInt(t)]

\* wpm[i] = v and wpm[i] *= v with Python's negative indices; an index outside
\* the array raises IndexError.
NpIndex(wpm, i) == IF i < 0 THEN i + Cardinality(DOMAIN wpm) ELSE i
NpInRange(wpm, i) == NpIndex(wpm, i) \in DOMAIN wpm

Returned(v) == [raised |-> "none", value |-> v]
Raised(e) == [raised |-> e]

\* Slip: the else branch falls back to the constant ramp.
MutRampBaseDefault(ramp_option, TT) ==
    IF ramp_option = RAMP_CONSTANT THEN Returned(NpOnes(TT))
    ELSE IF ramp_option = RAMP_LINEAR
    THEN Returned([t \in 0 .. (TT - 1) |-> RDiv(RAdd(NpArange(TT)[t], RInt(1)), RInt(TT))])
    ELSE IF ramp_option = RAMP_QUADRATIC
    THEN Returned([t \in 0 .. (TT - 1) |->
                    LET w == RDiv(RAdd(NpArange(TT)[t], RInt(1)), RInt(TT))
                    IN  RMul(w, w)])
    ELSE IF ramp_option = RAMP_FINAL_ONLY
    THEN IF NpInRange(NpZeros(TT), TT - 1)
         THEN Returned([NpZeros(TT) EXCEPT ![NpIndex(NpZeros(TT), TT - 1)] = RInt(1)])
         ELSE Raised("IndexError")
    ELSE Returned(NpOnes(TT))

\* Slip: the constant ramp starts from np.zeros.
MutRampBaseConstant(ramp_option, TT) ==
    IF ramp_option = RAMP_CONSTANT THEN Returned(NpZeros(TT))
    ELSE IF ramp_option = RAMP_LINEAR
    THEN Returned([t \in 0 .. (TT - 1) |-> RDiv(RAdd(NpArange(TT)[t], RInt(1)), RInt(TT))])
    ELSE IF ramp_option = RAMP_QUADRATIC
    THEN Returned([t \in 0 .. (TT - 1) |->
                    LET w == RDiv(RAdd(NpArange(TT)[t], RInt(1)), RInt(TT))
                    IN  RMul(w, w)])
    ELSE IF ramp_option = RAMP_FINAL_ONLY
    THEN IF NpInRange(NpZeros(TT), TT - 1)
         THEN Returned([NpZeros(TT) EXCEPT ![NpIndex(NpZeros(TT), TT - 1)] = RInt(1)])
         ELSE Raised("IndexError")
    ELSE Raised("ValueError")

\* Slip: the final-only ramp puts its weight on the first step.
MutRampBaseFinal(ramp_option, TT) ==
    IF ramp_option = RAMP_CONSTANT THEN Returned(NpOnes(TT))
    ELSE IF ramp_option = RAMP_LINEAR
    THEN Returned([t \in 0 .. (TT - 1) |-> RDiv(RAdd(NpArange(TT)[t], RInt(1)), RInt(TT))])
    ELSE IF ramp_option = RAMP_QUADRATIC
    THEN Returned([t \in 0 .. (TT - 1) |->
                    LET w == RDiv(RAdd(NpArange(TT)[t], RInt(1)), RInt(TT))
                    IN  RMul(w, w)])
    ELSE IF ramp_option = RAMP_FINAL_ONLY
    THEN IF NpInRange(NpZeros(TT), 0)
         THEN Returned([NpZeros(TT) EXCEPT ![0] = RInt(1)])
         ELSE Raised("IndexError")
    ELSE Raised("ValueError")

\* lines 23-33: the ramp before the final multiplier, or the error raised
RampBase(ramp_option, TT) ==
    IF ramp_option = RAMP_CONSTANT THEN Returned(NpOnes(TT))
    ELSE IF ramp_option = RAMP_LINEAR
    THEN Returned([t \in 0 .. (TT - 1) |-> RDiv(RAdd(NpArange(TT)[t], RInt(1)), RInt(TT))])
    ELSE IF ramp_option = RAMP_QUADRATIC
    THEN Returned([t \in 0 .. (TT - 1) |->
                    LET w == RDiv(RAdd(NpArange(TT)[t], RInt(1)), RInt(TT))
                    IN  RMul(w, w)])
    ELSE IF ramp_option = RAMP_FINAL_ONLY
    THEN IF NpInRange(NpZeros(TT), TT - 1)
         THEN Returned([NpZeros(TT) EXCEPT ![NpIndex(NpZeros(TT), TT - 1)] = RInt(1)])
         ELSE Raised("IndexError")
    ELSE Raised("ValueError")

\* Slip: the final multiplier is applied to the whole ramp.
MutScaleLast(wpm, wp_final_multiplier) ==
    Returned([t \in DOMAIN wpm |-> RMul(wpm[t], wp_final_multiplier)])

\* line 34: wpm[-1] *= wp_final_multiplier
ScaleLast(wpm, wp_final_multiplier) ==
    IF NpInRange(wpm, -1)
    THEN Returned([wpm EXCEPT ![NpIndex(wpm, -1)] = RMul(@, wp_final_multiplier)])
    ELSE Raised("IndexError")

\* lines 11-35
get_ramp_multiplier(ramp_option, TT, wp_final_multiplier) ==
    LET wpm == RampBase(ramp_option, TT)
    IN  IF wpm.raised # "none" THEN wpm
        ELSE ScaleLast(wpm.value, wp_final_multiplier)

\* A caller evaluates get_ramp_multiplier on some arguments.
RampCall ==
    /\ fn_args = NoArgs \/ fn_ret # NoRet
    /\ \E o \in RampOptions, h \in Horizons, w \in FinalMultipliers :
          fn_args' = [fn |-> "get_ramp_multiplier", ramp_option |-> o, T |-> h,
                      wp_final_multiplier |-> w]
    /\ fn_ret' = NoRet
    /\ UNCHANGED algvars

\* The call returns its weights or raises.
RampReturn ==
    /\ fn_args.fn = "get_ramp_multiplier"
    /\ fn_ret = NoRet
    /\ fn_ret' = get_ramp_multiplier(fn_args.ramp_option, fn_args.T,
                                     fn_args.wp_final_multiplier)
    /\ UNCHANGED <<algvars, fn_args>>

RampInit == Init /\ step_rule = "mc"

RampNext ==
    \/ RampCall
    \/ RampReturn

SpecRamp == RampInit /\ [][RampNext]_vars

\* ------------------------------------------------- claims on get_ramp_multiplier
RampModes == {RAMP_CONSTANT, RAMP_LINEAR, RAMP_QUADRATIC, RAMP_FINAL_ONLY}

\* A call of get_ramp_multiplier with the given mode has ended.
RampDone(mode) ==
    /\ fn_args.fn = "get_ramp_multiplier"
    /\ fn_ret # NoRet
    /\ fn_args.ramp_option = mode

\* ... and has returned a weight vector of length T >= 1.
RampReturned(mode) ==
    /\ RampDone(mode)
    /\ fn_args.T >= 1
    /\ fn_ret.raised = "none"
    /\ DOMAIN fn_ret.value = 0 .. (fn_args.T - 1)

\* C14: get_ramp_multiplier accepts exactly the four ramp modes: with one of
\* them and T >= 1 it returns a T-vector; with any other ramp_option it raises
\* ValueError and returns no weights, for every T and wp_final_multiplier.
C14_ExactlyFourModes ==
    (fn_args.fn = "get_ramp_multiplier" /\ fn_ret # NoRet) =>
        IF fn_args.ramp_option \in RampModes
        THEN fn_args.T >= 1 => RampReturned(fn_args.ramp_option)
        ELSE fn_ret = [raised |-> "ValueError"]

\* Tokens on both sides of the four modes were refused.
C14_Witness ==
    /\ RampDone(5)
    /\ fn_args.T = 3
    /\ fn_args.wp_final_multiplier = RInt(2)
    /\ fn_ret.raised = "ValueError"

\* C15 as stated: with RAMP_CONSTANT and T >= 1 every one of the T weights
\* returned is 1.
C15_ConstantAllOnes ==
    (RampDone(RAMP_CONSTANT) /\ fn_args.T >= 1) =>
        /\ RampReturned(RAMP_CONSTANT)
        /\ \A t \in 0 .. (fn_args.T - 1) : fn_ret.value[t] = RInt(1)

\* C15 amended: with RAMP_CONSTANT and T >= 1 the weight is 1 at every step
\* t < T-1 and wp_final_multiplier at step T-1, hence 1 at every step under
\* the default multiplier 1.0.
C15_ConstantButLast ==
    (RampDone(RAMP_CONSTANT) /\ fn_args.T >= 1) =>
        /\ RampReturned(RAMP_CONSTANT)
        /\ \A t \in 0 .. (fn_args.T - 2) : fn_ret.value[t] = RInt(1)
        /\ fn_ret.value[fn_args.T - 1] = fn_args.wp_final_multiplier
        /\ fn_args.wp_final_multiplier = RInt(1) =>
              \A t \in 0 .. (fn_args.T - 1) : fn_ret.value[t] = RInt(1)

\* A constant ramp over three steps with the final multiplier 2.
C15_Witness ==
    /\ RampReturned(RAMP_CONSTANT)
    /\ fn_args.T = 3
    /\ fn_args.wp_final_multiplier = RInt(2)
    /\ fn_ret.value[0] = RInt(1)
    /\ fn_ret.value[2] = RInt(2)

\* C16: with RAMP_FINAL_ONLY, T >= 1 and any wp_final_multiplier the weight
\* is 0 at every step t < T-1 and exactly wp_final_multiplier at step T-1.
C16_FinalOnly ==
    (RampDone(RAMP_FINAL_ONLY) /\ fn_args.T >= 1) =>
        /\ RampReturned(RAMP_FINAL_ONLY)
        /\ \A t \in 0 .. (fn_args.T - 2) : fn_ret.value[t] = RInt(0)
        /\ fn_ret.value[fn_args.T - 1] = fn_args.wp_final_multiplier

\* A final-only ramp over three steps with the final multiplier 1/2.
C16_Witness ==
    /\ RampReturned(RAMP_FINAL_ONLY)
    /\ fn_args.T = 3
    /\ fn_args.wp_final_multiplier = Rat(1, 2)
    /\ fn_ret.value[2] = Rat(1, 2)

\* The linear weight (t+1)/T of step t, and its square.
C17_Linear(t, TT) == Rat(t + 1, TT)
C17_Quadratic(t, TT) == Rat((t + 1) * (t + 1), TT * TT)

\* C17: the RAMP_LINEAR weight before the final multiplier is (t+1)/T,
\* strictly increasing in t and 1 at t = T-1; the RAMP_QUADRATIC weight is its
\* square; the final multiplier scales the last step's weight only, so steps
\* 0..T-2 are returned unscaled and step T-1 as 1 * wp_final_multiplier.
C17_LinearQuadratic ==
    /\ (RampDone(RAMP_LINEAR) /\ fn_args.T >= 1) =>
          /\ RampReturned(RAMP_LINEAR)
          /\ \A t \in 0 .. (fn_args.T - 2) :
                /\ fn_ret.value[t] = C17_Linear(t, fn_args.T)
                /\ RLess(C17_Linear(t, fn_args.T), C17_Linear(t + 1, fn_args.T))
          /\ C17_Linear(fn_args.T - 1, fn_args.T) = RInt(1)
          /\ fn_ret.value[fn_args.T - 1] =
                RMul(C17_Linear(fn_args.T - 1, fn_args.T), fn_args.wp_final_multiplier)
          /\ fn_args.wp_final_multiplier = RInt(1) =>
                /\ fn_ret.value[fn_args.T - 1] = RInt(1)
                /\ \A t \in 0 .. (fn_args.T - 2) :
                      RLess(fn_ret.value[t], fn_ret.value[t + 1])
    /\ (RampDone(RAMP_QUADRATIC) /\ fn_args.T >= 1) =>
          /\ RampReturned(RAMP_QUADRATIC)
          /\ \A t \in 0 .. (fn_args.T - 2) :
                /\ fn_ret.value[t] = C17_Quadratic(t, fn_args.T)
                /\ fn_ret.value[t] = RMul(C17_Linear(t, fn_args.T), C17_Linear(t, fn_args.T))
          /\ fn_ret.value[fn_args.T - 1] = fn_args.wp_final_multiplier

\* A linear ramp over four steps with the final multiplier -3: 1/4, 1/2, 3/4
\* and -3.
C17_Witness ==
    /\ RampReturned(RAMP_LINEAR)
    /\ fn_args.T = 4
    /\ fn_args.wp_final_multiplier = RInt(-3)
    /\ fn_ret.value[1] = Rat(1, 2)
    /\ fn_ret.value[2] = Rat(3, 4)
    /\ fn_ret.value[3] = RInt(-3)

\* ============================================== AlgorithmMDGPS.compute_costs
\* Matrices are functions 0 .. r-1 -> (0 .. c-1 -> number), vectors functions
\* 0 .. n-1 -> number.
dX == 2
dU == 1

RECURSIVE RSum(_, _)
\* f[0] + ... + f[n-1]
RSum(f, n) == IF n <= 0 THEN RInt(0) ELSE RAdd(RSum(f, n - 1), f[n - 1])

RAbs(a) == [n |-> Abs(a.n), d |-> a.d]
RMax(a, b) == IF RLess(a, b) THEN b ELSE a

Rows(A) == Cardinality(DOMAIN A)
Cols(A) == Cardinality(DOMAIN A[0])

NpEye(n) == [i \in 0 .. (n - 1) |-> [j \in 0 .. (n - 1) |-> RInt(IF i = j THEN 1 ELSE 0)]]
Transpose(A) == [j \in DOMAIN A[0] |-> [i \in DOMAIN A |-> A[i][j]]]
Dot(A, B) ==
    [i \in DOMAIN A |-> [j \in DOMAIN B[0] |->
        RSum([k \in DOMAIN B |-> RMul(A[i][k], B[k][j])], Rows(B))]]
DotVec(A, v) ==
    [i \in DOMAIN A |-> RSum([k \in DOMAIN v |-> RMul(A[i][k], v[k])], Cardinality(DOMAIN v))]
MatNeg(A) == [i \in DOMAIN A |-> [j \in DOMAIN A[i] |-> RNeg(A[i][j])]]
MatAdd(A, B) == [i \in DOMAIN A |-> [j \in DOMAIN A[i] |-> RAdd(A[i][j], B[i][j])]]
MatScale(A, s) == [i \in DOMAIN A |-> [j \in DOMAIN A[i] |-> RMul(A[i][j], s)]]
MatDiv(A, s) == [i \in DOMAIN A |-> [j \in DOMAIN A[i] |-> RDiv(A[i][j], s)]]
VecNeg(v) == [i \in DOMAIN v |-> RNeg(v[i])]
VecAdd(v, w) == [i \in DOMAIN v |-> RAdd(v[i], w[i])]
VecScale(v, s) == [i \in DOMAIN v |-> RMul(v[i], s)]
VecDiv(v, s) == [i \in DOMAIN v |-> RDiv(v[i], s)]

\* np.hstack, np.vstack, np.concatenate
HStack(A, B) ==
    [i \in DOMAIN A |-> [j \in 0 .. (Cols(A) + Cols(B) - 1) |->
        IF j < Cols(A) THEN A[i][j] ELSE B[i][j - Cols(A)]]]
VStack(A, B) ==
    [i \in 0 .. (Rows(A) + Rows(B) - 1) |-> IF i < Rows(A) THEN A[i] ELSE B[i - Rows(A)]]
Concatenate(v, w) ==
    [i \in 0 .. (Cardinality(DOMAIN v) + Cardinality(DOMAIN w) - 1) |->
        IF i < Cardinality(DOMAIN v) THEN v[i] ELSE w[i - Cardinality(DOMAIN v)]]

RECURSIVE MaxRowSum(_, _)
MaxRowSum(A, n) ==
    LET row == RSum([j \in DOMAIN A[n - 1] |-> RAbs(A[n - 1][j])], Cols(A))
    IN  IF n <= 1 THEN row ELSE RMax(MaxRowSum(A, n - 1), row)

\* np.linalg.norm(K, np.inf): the largest absolute row sum
NormInf(K) == MaxRowSum(K, Rows(K))

\* np.linalg.solve(A, B) for the 1 x 1 systems of dU = 1; a singular A raises
\* LinAlgError.
Solve(A, B) ==
    IF A[0][0].n = 0 THEN Raised("LinAlgError")
    ELSE Returned([i \in DOMAIN B |-> [j \in DOMAIN B[i] |-> RDiv(B[i][j], A[0][0])]])

\* Slip: one triangular solve only, the inverse of the factor.
MutInvPolS(chol_pol_S) == Solve(chol_pol_S, NpEye(dU))

\* lines 248-250: inv_pol_S from the Cholesky factor of pol_S[t]
InvPolS(chol_pol_S) ==
    LET inner == Solve(Transpose(chol_pol_S), NpEye(dU))
    IN  IF inner.raised # "none" THEN inner ELSE Solve(chol_pol_S, inner.value)

\* lines 252-257
PolicyKLm(KB, inv_pol_S) ==
    VStack(HStack(Dot(Dot(Transpose(KB), inv_pol_S), KB),
                  MatNeg(Dot(Transpose(KB), inv_pol_S))),
           HStack(MatNeg(Dot(inv_pol_S, KB)), inv_pol_S))

\* line 258
PolicyKLv(KB, kB, inv_pol_S) ==
    Concatenate(DotVec(Dot(Transpose(KB), inv_pol_S), kB),
                VecNeg(DotVec(inv_pol_S, kB)))

\* lines 259-262
FuseCm(Cm, K, PKLm, K_regularization, eta) ==
    MatDiv(MatAdd(MatAdd(Cm, MatScale(NpEye(dX + dU),
                                      RMul(K_regularization, NormInf(K)))),
                  MatScale(PKLm, eta)),
           eta)

\* Slip: the KL term is not weighted by eta.
MutFuseCv(cv, PKLv, eta) == VecDiv(VecAdd(cv, PKLv), eta)

\* line 263
FuseCv(cv, PKLv, eta) == VecDiv(VecAdd(cv, VecScale(PKLv, eta)), eta)

\* lines 246-263, one pass of the loop; c is the part of self.cur[m] read at t
FuseStep(c, K_regularization, eta) ==
    LET inv == InvPolS(c.chol_pol_S)
    IN  IF inv.raised # "none" THEN inv
        ELSE Returned([fCm |-> FuseCm(c.Cm, c.K,
                                      PolicyKLm(c.pol_K, inv.value),
                                      K_regularization, eta),
                       fcv |-> FuseCv(c.cv,
                                      PolicyKLv(c.pol_K, c.pol_k, inv.value), eta)])

\* lines 236-265: (fCm, fcv), or the error of the first timestep that raises
compute_costs(cur_m, K_regularization, eta) ==
    LET steps == [t \in Steps |-> FuseStep(cur_m[t], K_regularization, eta)]
    IN  IF \E t \in Steps : steps[t].raised # "none"
        THEN steps[CHOOSE t \in Steps :
                     /\ steps[t].raised # "none"
                     /\ \A s \in Steps : steps[s].raised # "none" => t <= s]
        ELSE Returned([fCm |-> [t \in Steps |-> steps[t].value.fCm],
                       fcv |-> [t \in Steps |-> steps[t].value.fcv]])

\* Rows of integers as a matrix, a tuple of integers as a vector.
FromRows(rows) ==
    [i \in 0 .. (Len(rows) - 1) |-> [j \in 0 .. (Len(rows[1]) - 1) |->
        RInt(rows[i + 1][j + 1])]]
FromTuple(tup) == [i \in 0 .. (Len(tup) - 1) |-> RInt(tup[i + 1])]

\* What compute_costs reads of self.cur[m] at one timestep: the task cost
\* Cm[t], cv[t], the controller gain traj_distr.K[t], and the fitted policy
\* pol_K[t], pol_k[t], pol_S[t] with its factor chol_pol_S[t].  The last one
\* is a PolicyInfo as constructed, before any fit.
TimestepData ==
    {[Cm |-> FromRows(<<<<2, 0, 0>>, <<0, 2, 0>>, <<0, 0, 2>>>>),
      cv |-> FromTuple(<<1, 0, -1>>), K |-> FromRows(<<<<1, -2>>>>),
      pol_K |-> FromRows(<<<<1, 0>>>>), pol_k |-> FromTuple(<<1>>),
      pol_S |-> FromRows(<<<<1>>>>), chol_pol_S |-> FromRows(<<<<1>>>>)],
     [Cm |-> FromRows(<<<<1, 2, 0>>, <<2, 1, 0>>, <<0, 0, 3>>>>),
      cv |-> FromTuple(<<0, 2, 1>>), K |-> FromRows(<<<<0, 0>>>>),
      pol_K |-> FromRows(<<<<2, -1>>>>), pol_k |-> FromTuple(<<-1>>),
      pol_S |-> FromRows(<<<<4>>>>), chol_pol_S |-> FromRows(<<<<2>>>>)],
     [Cm |-> FromRows(<<<<0, 0, 0>>, <<0, 0, 0>>, <<0, 0, 0>>>>),
      cv |-> FromTuple(<<0, 0, 0>>), K |-> FromRows(<<<<-3, 1>>>>),
      pol_K |-> FromRows(<<<<-1, 3>>>>), pol_k |-> FromTuple(<<2>>),
      pol_S |-> FromRows(<<<<9>>>>), chol_pol_S |-> FromRows(<<<<3>>>>)],
     [Cm |-> FromRows(<<<<1, 0, 0>>, <<0, 1, 0>>, <<0, 0, 1>>>>),
      cv |-> FromTuple(<<1, 1, 1>>), K |-> FromRows(<<<<1, 1>>>>),
      pol_K |-> FromRows(<<<<0, 0>>>>), pol_k |-> FromTuple(<<0>>),
      pol_S |-> FromRows(<<<<0>>>>), chol_pol_S |-> FromRows(<<<<0>>>>)]}

Etas == {RInt(-1), RInt(0), Rat(1, 2), RInt(1), RInt(2)}
Regularizations == {RInt(0), Rat(1, 2)}
Scalings == {RInt(2), RInt(3), Rat(1, 2)}

\* A caller (the trajectory optimizer) evaluates compute_costs(m, eta).
CostsCall ==
    /\ fn_args = NoArgs \/ fn_ret # NoRet
    /\ \E d \in [Steps -> TimestepData], e \in Etas, r \in Regularizations :
          fn_args' = [fn |-> "compute_costs", cur_m |-> d, K_regularization |-> r,
                      eta |-> e, c |-> RInt(1), unscaled |-> NoRet]
    /\ fn_ret' = NoRet
    /\ UNCHANGED algvars

\* After a call with eta > 0 the caller repeats it with the task cost and eta
\* scaled by c.
CostsCallScaled ==
    /\ fn_args.fn = "compute_costs"
    /\ fn_ret # NoRet
    /\ fn_args.c = RInt(1)
    /\ RLess(RInt(0), fn_args.eta)
    /\ \E c \in Scalings :
          fn_args' = [fn_args EXCEPT
                        !.cur_m = [t \in Steps |->
                                     [fn_args.cur_m[t] EXCEPT
                                        !.Cm = MatScale(@, c), !.cv = VecScale(@, c)]],
                        !.eta = RMul(@, c),
                        !.c = c,
                        !.unscaled = fn_ret]
    /\ fn_ret' = NoRet
    /\ UNCHANGED algvars

\* The call returns (fCm, fcv) or raises.
CostsReturn ==
    /\ fn_args.fn = "compute_costs"
    /\ fn_ret = NoRet
    /\ fn_ret' = compute_costs(fn_args.cur_m, fn_args.K_regularization, fn_args.eta)
    /\ UNCHANGED <<algvars, fn_args>>

CostsInit == Init /\ step_rule = "mc"

CostsNext ==
    \/ CostsCall
    \/ CostsCallScaled
    \/ CostsReturn

SpecCosts == CostsInit /\ [][CostsNext]_vars

\* ------------------------------------------------------ claims on compute_costs
\* A call of compute_costs has ended.
CostsDone == fn_args.fn = "compute_costs" /\ fn_ret # NoRet

\* The inverse of the fitted covariance pol_S[t] (a 1 x 1 matrix).
C18_S(d) == RDiv(RInt(1), d.pol_S[0][0])

\* The KL-penalty quadratic [[K'SK, -K'S], [-SK, S]] and [K'Sk, -Sk], entry by
\* entry, from the fitted gain, bias and inverse covariance.
C18_PKLm(d, i, j) ==
    IF i < dX /\ j < dX THEN RMul(RMul(d.pol_K[0][i], C18_S(d)), d.pol_K[0][j])
    ELSE IF i < dX THEN RNeg(RMul(d.pol_K[0][i], C18_S(d)))
    ELSE IF j < dX THEN RNeg(RMul(C18_S(d), d.pol_K[0][j]))
    ELSE C18_S(d)
C18_PKLv(d, i) ==
    IF i < dX THEN RMul(RMul(d.pol_K[0][i], C18_S(d)), d.pol_k[0])
    ELSE RNeg(RMul(C18_S(d), d.pol_k[0]))

\* reg: K_regularization times the infinity norm of the controller gain K[t].
C18_Reg(d, K_regularization) ==
    RMul(K_regularization, RSum([j \in 0 .. (dX - 1) |-> RAbs(d.K[0][j])], dX))

C18_fCm(d, K_regularization, eta, i, j) ==
    RDiv(RAdd(RAdd(d.Cm[i][j], IF i = j THEN C18_Reg(d, K_regularization) ELSE RInt(0)),
              RMul(eta, C18_PKLm(d, i, j))),
         eta)
C18_fcv(d, eta, i) == RDiv(RAdd(d.cv[i], RMul(eta, C18_PKLv(d, i))), eta)

\* C18: for eta > 0 and a fitted policy, compute_costs returns for every
\* timestep fCm[t] = (Cm[t] + reg*I + eta*PKLm[t]) / eta and
\* fcv[t] = (cv[t] + eta*PKLv[t]) / eta with reg = K_regularization times the
\* infinity norm of traj_distr.K[t] and PKLm, PKLv the KL-penalty quadratic
\* built from pol_K[t], pol_k[t] and the inverse of pol_S[t].
C18_FusedCost ==
    (/\ CostsDone
     /\ RLess(RInt(0), fn_args.eta)
     /\ \A t \in Steps : fn_args.cur_m[t].pol_S[0][0] # RInt(0)) =>
        /\ fn_ret.raised = "none"
        /\ \A t \in Steps : \A i \in 0 .. (dX + dU - 1) :
              /\ fn_ret.value.fcv[t][i] = C18_fcv(fn_args.cur_m[t], fn_args.eta, i)
              /\ \A j \in 0 .. (dX + dU - 1) :
                    fn_ret.value.fCm[t][i][j] =
                        C18_fCm(fn_args.cur_m[t], fn_args.K_regularization,
                                fn_args.eta, i, j)

\* Gain (-3, 1), K_regularization 1/2, pol_S = 9, eta = 1/2 and no task cost:
\* the action entry of fCm[0] is (2 + 1/18) / (1/2) = 37/9.
C18_Witness ==
    /\ CostsDone
    /\ fn_args.c = RInt(1)
    /\ fn_args.eta = Rat(1, 2)
    /\ fn_args.K_regularization = Rat(1, 2)
    /\ fn_args.cur_m[0].pol_S[0][0] = RInt(9)
    /\ fn_ret.raised = "none"
    /\ fn_ret.value.fCm[0][dX][dX] = Rat(37, 9)
    /\ fn_ret.value.fCm[0][0][dX] = Rat(1, 9)

\* C19 as stated: scaling Cm, cv and eta by the same c > 0 leaves fCm and fcv
\* unchanged, for every controller gain and K_regularization.
C19_Homogeneous ==
    (CostsDone /\ fn_args.c # RInt(1) /\ fn_ret.raised = "none") =>
        /\ fn_ret.value.fcv = fn_args.unscaled.value.fcv
        /\ fn_ret.value.fCm = fn_args.unscaled.value.fCm

\* C19 amended: scaling Cm, cv and eta by the same c > 0 leaves fcv unchanged,
\* and leaves fCm[t] unchanged where the regularizer K_regularization times
\* the infinity norm of K[t] is zero; otherwise fCm[t] changes by
\* reg * (1/(c*eta) - 1/eta) * I.
C19_HomogeneousUpToReg ==
    (CostsDone /\ fn_args.c # RInt(1) /\ fn_ret.raised = "none") =>
        /\ fn_args.unscaled.raised = "none"
        /\ fn_ret.value.fcv = fn_args.unscaled.value.fcv
        /\ \A t \in Steps :
              LET reg == C18_Reg(fn_args.cur_m[t], fn_args.K_regularization)
                  eta0 == RDiv(fn_args.eta, fn_args.c)
                  shift == RMul(reg, RAdd(RDiv(RInt(1), fn_args.eta),
                                          RNeg(RDiv(RInt(1), eta0))))
              IN  /\ reg = RInt(0) =>
                        fn_ret.value.fCm[t] = fn_args.unscaled.value.fCm[t]
                  /\ fn_ret.value.fCm[t] =
                        MatAdd(fn_args.unscaled.value.fCm[t],
                               MatScale(NpEye(dX + dU), shift))

\* A call scaled by 2 with a regularized first timestep and an unregularized
\* second one: fcv is the same, fCm[0] is not, fCm[1] is.
C19_Witness ==
    /\ CostsDone
    /\ fn_args.c = RInt(2)
    /\ fn_ret.raised = "none"
    /\ C18_Reg(fn_args.cur_m[0], fn_args.K_regularization) # RInt(0)
    /\ C18_Reg(fn_args.cur_m[T - 1], fn_args.K_regularization) = RInt(0)
    /\ fn_args.cur_m[T - 1].Cm[0][1] # RInt(0)
    /\ fn_ret.value.fcv = fn_args.unscaled.value.fcv
    /\ fn_ret.value.fCm[0] # fn_args.unscaled.value.fCm[0]
    /\ fn_ret.value.fCm[T - 1] = fn_args.unscaled.value.fCm[T - 1]

\* C20: compute_costs called for a fitted policy with eta = 0 or eta < 0
\* fails with an assertion-style error and returns no fused cost matrices.
C20_RejectsNonPositiveEta ==
    (/\ CostsDone
     /\ ~RLess(RInt(0), fn_args.eta)
     /\ \A t \in Steps : fn_args.cur_m[t].pol_S[0][0] # RInt(0)) =>
        fn_ret = [raised |-> "AssertionError"]

\* ------------------------------------------------------- factorization failure
LaterPhases == {"StepAdjust", "TrajectoryOptimize", "PolicyUpdate", "Advance"}

\* The running call has raised in _update_policy_fit.
FitRaised ==
    /\ pc = "Raised"
    /\ phase_log # <<>>
    /\ phase_log[Len(phase_log)].ph = "PolicyFit"

\* The state a failed PolicyFit leaves: no later phase has run, the iteration
\* counter is the one the call was entered with, and every controller is the
\* one the call started from.
C21_Stopped ==
    FitRaised =>
        /\ \A i \in 1 .. Len(phase_log) : phase_log[i].ph \notin LaterPhases
        /\ iteration_count = call_iter
        /\ \A m \in Conds :
              /\ cur[m].traj_distr =
                    IF call_iter = 0 THEN InitTrajDistr ELSE prev[m].new_traj_distr
              /\ new_traj_distr[m] = cur[m].traj_distr

\* A fit whose pol_S is not positive definite at some timestep raises, and
\* nothing runs after a raise.
C21_Step ==
    /\ pc # "Raised"
    /\ (pc = "PolicyFit"
        /\ \E t \in Steps : ~heap'.pi[cur[idx].pol_info].pol_S[t].pd) =>
            /\ pc' = "Raised"
            /\ UNCHANGED <<iteration_count, cur, prev, new_traj_distr, policy_opt>>

\* C21: if pol_S[t] of some condition is not positive definite, PolicyFit
\* fails at that factorization; StepAdjust, TrajectoryOptimize, PolicyUpdate
\* and Advance of that iteration do not run, no controller is replaced and
\* the iteration counter is not advanced.
C21_CholeskyFailureStops == [](C21_Stopped) /\ [][C21_Step]_vars

\* The second call failed in the fit of condition 1, at the last timestep.
C21_Witness ==
    /\ FitRaised
    /\ iteration_count = 1
    /\ idx = 1
    /\ ~heap.pi[cur[1].pol_info].pol_S[T - 1].pd
    /\ heap.pi[cur[1].pol_info].pol_S[0].pd
    /\ cur[0].traj_distr.kind = "lqr"

\* C22: when the Cholesky factorization of _update_policy_fit fails for
\* condition m, cur[m].pol_info is left consistent: chol_pol_S[s] is the factor
\* of pol_S[s] at every timestep s, pol_K, pol_k and pol_S being of one fit.
C22_NoPartialFit ==
    FitRaised =>
        LET info == heap.pi[cur[idx].pol_info]
        IN  \A s \in Steps :
                /\ info.pol_S[s].pd
                /\ heap.arr[info.chol_pol_S][s] = Chol(info.pol_S[s])

\* ------------------------------------------------------------ _update_policy
C28_Step ==
    pc \in {"PolicyBootstrap", "PolicyUpdate"} =>
        /\ pc' # "Raised"
        /\ \A m \in Conds :
              \A n \in 0 .. cur[m].sample_list.N - 1 :
                  /\ n \in DOMAIN last_update'.X[m]
                  /\ last_update'.X[m][n] = GetX(cur[m].sample_list, m, n)
                  /\ last_update'.mu[m][n] =
                        [K |-> new_traj_distr'[m],
                         X |-> GetX(cur[m].sample_list, m, n)]

\* C28: _update_policy hands the optimizer, for every condition m and every
\* sample n of cur[m].sample_list, the states X[m, n] of that sample and the
\* action targets mu[m, n] of the condition's controller; no sample is dropped
\* and no entry is left unwritten, also when the conditions hold different
\* numbers of samples.
C28_EverySampleHandedOver == [][C28_Step]_vars

\* ------------------------------------------------ independence of the fits
\* The conditions whose fit is still to run, in every order.
FitOrders ==
    LET n == M - idx
    IN  {o \in [1 .. n -> idx .. M - 1] : \A i, j \in 1 .. n : o[i] = o[j] => i = j}

\* The loop of lines 66-67 run in the order o, every factorization succeeding.
RECURSIVE FitInOrder(_, _)
FitInOrder(h, o) ==
    IF o = <<>> THEN h
    ELSE FitInOrder(UpdatePolicyFit(h, cur[Head(o)].pol_info, policy_opt, Head(o),
                                    cur[Head(o)].sample_list.tag, T),
                    Tail(o))

\* Whatever order the remaining fits run in, the heap they leave is the one
\* the loop order leaves.
C25_AnyOrder ==
    pc = "PolicyFit" =>
        \A o \in FitOrders :
            FitInOrder(heap, o) = FitInOrder(heap, [i \in 1 .. M - idx |-> idx + i - 1])

\* The fit of condition idx writes the objects of cur[idx].pol_info and
\* nothing else: no other condition's PolicyInfo, no prev, no shared field.
C25_Step ==
    pc = "PolicyFit" =>
        /\ \A q \in Conds \ {idx} :
              Deref(heap', cur[q].pol_info) = Deref(heap, cur[q].pol_info)
        /\ \A q \in Conds :
              Deref(heap', prev[q].pol_info) = Deref(heap, prev[q].pol_info)
        /\ \A k \in {"pi", "arr", "prior"} : \A r \in Refs :
              <<k, r>> \notin Reach(heap, cur[idx].pol_info) => heap'[k][r] = heap[k][r]
        /\ UNCHANGED <<cur, prev, new_traj_distr, policy_opt, iteration_count>>

NpZeros2(r, c) == [i \in 0 .. (r - 1) |-> [j \in 0 .. (c - 1) |-> RInt(0)]]
NpZeros3(r, c, e) == [t \in 0 .. (r - 1) |-> NpZeros2(c, e)]

\* np.diag(v) and np.tile(A, [TT, 1, 1])
NpDiag(v) ==
    [i \in DOMAIN v |-> [j \in DOMAIN v |-> IF i = j THEN v[i] ELSE RInt(0)]]
NpTile(A, TT) == [t \in 0 .. (TT - 1) |-> A]

\* Slip: the factor 0.5 of the loss is missing.
MutActionLoss(wu, sample_u) ==
    [t \in DOMAIN sample_u |->
        RSum([i \in DOMAIN wu |-> RMul(wu[i], RMul(sample_u[t][i], sample_u[t][i]))],
             Cardinality(DOMAIN wu))]

\* lines 28 and 43: 0.5 * np.sum(wu * (sample_u**2), axis=1)
ActionLoss(wu, sample_u) ==
    [t \in DOMAIN sample_u |->
        RMul(Rat(1, 2),
             RSum([i \in DOMAIN wu |-> RMul(wu[i], RMul(sample_u[t][i], sample_u[t][i]))],
                  Cardinality(DOMAIN wu)))]

\* lines 28-33 and 43-49: the tuple both evaluations build from sample_u.
ActionTuple(wu, sample_u, TT, Du, Dx) ==
    [l |-> ActionLoss(wu, sample_u),
     lx |-> NpZeros2(TT, Dx),
     lu |-> [t \in DOMAIN sample_u |-> [i \in DOMAIN wu |-> RMul(wu[i], sample_u[t][i])]],
     lxx |-> NpZeros3(TT, Dx, Dx),
     luu |-> NpTile(NpDiag(wu), TT),
     lux |-> NpZeros3(TT, Du, Dx)]

\* CostAction.eval(sample), lines 17-33
CostActionEval(hyperparams, sample) ==
    LET sample_u == [t \in DOMAIN sample.U |->
                        [i \in DOMAIN sample.U[t] |->
                            RAdd(sample.U[t][i], RNeg(hyperparams.target_state[i]))]]
    IN  ActionTuple(hyperparams.wu, sample_u, sample.T, sample.dU, sample.dX)

\* CostAction.eval_mu(mu, T, Du, Dx), lines 35-49
CostActionEvalMu(hyperparams, mu, TT, Du, Dx) ==
    LET sample_u == [t \in DOMAIN mu |-> [i \in 0 .. (Du - 1) |-> mu[t][Dx + i]]]
    IN  ActionTuple(hyperparams.wu, sample_u, TT, Du, Dx)

\* Inputs: the configured weights and targets, and samples of every horizon
\* with a few action and state profiles.
ActionConfigs ==
    {[wu |-> FromTuple(<<1>>), target_state |-> FromTuple(<<0>>)],
     [wu |-> FromTuple(<<3>>), target_state |-> FromTuple(<<0>>)],
     [wu |-> FromTuple(<<1>>), target_state |-> FromTuple(<<1>>)],
     [wu |-> FromTuple(<<0>>), target_state |-> FromTuple(<<-2>>)],
     [wu |-> FromTuple(<<1, 2>>), target_state |-> FromTuple(<<0, 0>>)],
     [wu |-> FromTuple(<<2, 1>>), target_state |-> FromTuple(<<1, -1>>)]}
ActionHorizons == 1 .. (MaxT + 1)
ActionProfiles == {"ones", "zeros", "ramp", "halves"}
ActionValue(p, t, i) ==
    CASE p = "ones" -> RInt(1)
      [] p = "zeros" -> RInt(0)
      [] p = "ramp" -> RInt(t - i)
      [] OTHER -> Rat(t - 1, 2)
ActionSample(p, TT, Du) ==
    [T |-> TT, dU |-> Du, dX |-> dX,
     U |-> [t \in 0 .. (TT - 1) |-> [i \in 0 .. (Du - 1) |-> ActionValue(p, t, i)]],
     X |-> [t \in 0 .. (TT - 1) |-> [a \in 0 .. (dX - 1) |->
              IF p = "ones" THEN RInt(0) ELSE RInt(t + a + 2)]]]

\* The caller evaluates the cost of a sample.
ActionCall ==
    /\ fn_args = NoArgs \/ fn_ret # NoRet
    /\ \E h \in ActionConfigs, TT \in ActionHorizons, p \in ActionProfiles :
          fn_args' = [fn |-> "CostAction.eval", hyperparams |-> h,
                      sample |-> ActionSample(p, TT, Cardinality(DOMAIN h.wu)),
                      of_sample |-> NoRet]
    /\ fn_ret' = NoRet
    /\ UNCHANGED algvars

ActionReturn ==
    /\ fn_args.fn = "CostAction.eval"
    /\ fn_ret = NoRet
    /\ fn_ret' = Returned(CostActionEval(fn_args.hyperparams, fn_args.sample))
    /\ UNCHANGED <<algvars, fn_args>>

\* The caller evaluates the same cost on a mean mu = [x, u] whose action
\* columns are the sample's actions.
ActionCallMu ==
    /\ fn_args.fn = "CostAction.eval"
    /\ fn_ret # NoRet
    /\ fn_args' = [fn |-> "CostAction.eval_mu", hyperparams |-> fn_args.hyperparams,
                   sample |-> fn_args.sample,
                   mu |-> HStack(fn_args.sample.X, fn_args.sample.U),
                   of_sample |-> fn_ret]
    /\ fn_ret' = NoRet
    /\ UNCHANGED algvars

ActionReturnMu ==
    /\ fn_args.fn = "CostAction.eval_mu"
    /\ fn_ret = NoRet
    /\ fn_ret' = Returned(CostActionEvalMu(fn_args.hyperparams, fn_args.mu,
                                           fn_args.sample.T, fn_args.sample.dU,
                                           fn_args.sample.dX))
    /\ UNCHANGED <<algvars, fn_args>>

ActionInit == Init /\ step_rule = "mc"

ActionNext ==
    \/ ActionCall
    \/ ActionReturn
    \/ ActionCallMu
    \/ ActionReturnMu

SpecAction == ActionInit /\ [][ActionNext]_vars

\* ------------------------------------------------------------------ claims
EvalDone == fn_args.fn = "CostAction.eval" /\ fn_ret # NoRet
EvalMuDone == fn_args.fn = "CostAction.eval_mu" /\ fn_ret # NoRet

\* The values the action cost is documented to have.
C23_Values ==
    EvalDone =>
        LET wu == fn_args.hyperparams.wu
            target == fn_args.hyperparams.target_state
            u == fn_args.sample.U
            TT == fn_args.sample.T
            DU == DOMAIN wu
            DX == 0 .. (fn_args.sample.dX - 1)
            r == fn_ret.value
            diff(t, i) == RAdd(u[t][i], RNeg(target[i]))
        IN  /\ fn_ret.raised = "none"
            /\ \A f \in {"l", "lx", "lu", "lxx", "luu", "lux"} : DOMAIN r[f] = 0 .. (TT - 1)
            /\ \A t \in 0 .. (TT - 1) :
                  /\ RAdd(r.l[t], r.l[t]) =
                        RSum([i \in DU |-> RMul(wu[i], RMul(diff(t, i), diff(t, i)))],
                             Cardinality(DU))
                  /\ \A i \in DU : r.lu[t][i] = RMul(wu[i], diff(t, i))
                  /\ \A i, j \in DU : r.luu[t][i][j] = IF i = j THEN wu[i] ELSE RInt(0)
                  /\ DOMAIN r.lu[t] = DU /\ DOMAIN r.luu[t] = DU
                  /\ \A a \in DX : r.lx[t][a] = RInt(0)
                  /\ \A a, b \in DX : r.lxx[t][a][b] = RInt(0)
                  /\ \A i \in DU : \A a \in DX : r.lux[t][i][a] = RInt(0)
                  /\ DOMAIN r.lx[t] = DX /\ DOMAIN r.lxx[t] = DX /\ DOMAIN r.lux[t] = DU

\* The example: T = 5, dX = 2, dU = 1, wu = [1.0], target 0, u = 1 throughout.
C23_ExampleCase ==
    /\ EvalDone
    /\ fn_args.hyperparams = [wu |-> FromTuple(<<1>>), target_state |-> FromTuple(<<0>>)]
    /\ fn_args.sample.T = 5
    /\ fn_args.sample.dX = 2
    /\ \A t \in 0 .. 4 : fn_args.sample.U[t] = FromTuple(<<1>>)

C23_Example ==
    C23_ExampleCase =>
        \A t \in 0 .. 4 :
            /\ fn_ret.value.l[t] = Rat(1, 2)
            /\ fn_ret.value.lu[t] = FromTuple(<<1>>)
            /\ fn_ret.value.luu[t] = FromRows(<<<<1>>>>)

\* C23: CostAction.eval returns l[t] = 0.5 * sum_i wu[i] * (u[t,i] - target[i])^2,
\* lu = wu * (u - target), luu = diag(wu) at every timestep, and zero lx, lxx
\* and lux; with T = 5, dX = 2, dU = 1, wu = [1.0], target 0 and u = 1 it gives
\* l = 0.5, lu = 1.0 and luu = [[1.0]] at every timestep.
C23_ActionCost == C23_Values /\ C23_Example

\* A two-dimensional action with a non-zero target and a non-zero loss.
C23_Witness ==
    /\ EvalDone
    /\ Cardinality(DOMAIN fn_args.hyperparams.wu) = 2
    /\ fn_args.hyperparams.target_state[1] = RInt(-1)
    /\ fn_args.sample.T = 3
    /\ fn_ret.value.l[2] = RInt(3)
    /\ fn_ret.value.lu[2] = FromTuple(<<2, 2>>)

\* C27: CostAction.eval and CostAction.eval_mu return the same tuple when the
\* action columns mu[:, Dx:Dx+Du] are the sample's actions, for every
\* configured wu and target_state.
C27_SameTuple == EvalMuDone => fn_ret = fn_args.of_sample

\* ========================================================== MU_Policy.update
MaxShape == 3
MaxBatch == 6

\* Python's int(a / b) for integers small enough to be exact as floats: the
\* quotient truncated toward zero.
IntOfQuotient(a, b) ==
    IF (a >= 0) = (b > 0) THEN Abs(a) \div Abs(b) ELSE -(Abs(a) \div Abs(b))

\* update(X, mu, prc, K, k, initial_policy), lines 206-259, for X of shape
\* (MM, N, TT, dX): the size check of the dataset and the training loop.
MuPolicyUpdate(self, MM, N, TT, initial_policy) ==
    LET N_ctr == MM * (TT - 1)
        batches_per_epoch == IntOfQuotient(N_ctr, self.batch_size)
        epochs == IF ~initial_policy THEN self.epochs ELSE 10
    IN  IF batches_per_epoch * self.batch_size # N_ctr
        THEN Raised("AssertionError")
        ELSE Returned([batches_per_epoch |-> batches_per_epoch,
                       epochs |-> epochs,
                       solver_runs |-> epochs * batches_per_epoch])

\* Inputs: the shape of X and the hyperparameters batch_size and epochs.
Shapes == 1 .. MaxShape
BatchSizes == 1 .. MaxBatch
EpochSettings == {1, 20}

MuUpdateCall ==
    /\ fn_args = NoArgs \/ fn_ret # NoRet
    /\ \E MM \in Shapes, N \in Shapes, Tm1 \in Shapes, b \in BatchSizes,
          e \in EpochSettings, ip \in BOOLEAN :
          fn_args' = [fn |-> "MU_Policy.update",
                      self |-> [batch_size |-> b, epochs |-> e],
                      M |-> MM, N |-> N, T |-> Tm1 + 1, initial_policy |-> ip]
    /\ fn_ret' = NoRet
    /\ UNCHANGED algvars

MuUpdateReturn ==
    /\ fn_args.fn = "MU_Policy.update"
    /\ fn_ret = NoRet
    /\ fn_ret' = MuPolicyUpdate(fn_args.self, fn_args.M, fn_args.N, fn_args.T,
                                fn_args.initial_policy)
    /\ UNCHANGED <<algvars, fn_args>>

MuUpdateInit == Init /\ step_rule = "mc"

MuUpdateNext ==
    \/ MuUpdateCall
    \/ MuUpdateReturn

SpecMuUpdate == MuUpdateInit /\ [][MuUpdateNext]_vars

\* C26: MU_Policy.update accepts every batch_size that is a divisor of
\* M * N * (T - 1): its assertion passes and the training loop runs.
C26_DivisorAccepted ==
    (/\ fn_args.fn = "MU_Policy.update"
     /\ fn_ret # NoRet
     /\ (fn_args.M * fn_args.N * (fn_args.T - 1)) % fn_args.self.batch_size = 0) =>
        /\ fn_ret.raised = "none"
        /\ fn_ret.value.solver_runs > 0

\* ======================================= cost_utils: the four penalty terms
\* np.sqrt on the values the inputs below produce: rationals whose numerator
\* and denominator are perfect squares.
ISqrt(n) == CHOOSE r \in 0 .. n : r * r = n
RSqrt(a) == Rat(ISqrt(a.n), ISqrt(a.d))

\* A value of the form sum_x c[x] * exp(x) with rational exponents x <= 0 and
\* rational coefficients c[x] # 0, as a function from the exponents to the
\* coefficients; these exponentials are linearly independent over the
\* rationals, so two such values are equal iff the functions are. A rational
\* r is r * exp(0).
EZero == [x \in {} |-> RInt(0)]
EUnit(x, c) == IF c = RInt(0) THEN EZero ELSE [y \in {x} |-> c]
ELift(r) == EUnit(RInt(0), r)
EGet(f, x) == IF x \in DOMAIN f THEN f[x] ELSE RInt(0)
EAdd(f, g) ==
    LET both == DOMAIN f \cup DOMAIN g
        h == [x \in both |-> RAdd(EGet(f, x), EGet(g, x))]
    IN  [x \in {y \in both : h[y] # RInt(0)} |-> h[x]]
EScale(f, c) == IF c = RInt(0) THEN EZero ELSE [x \in DOMAIN f |-> RMul(f[x], c)]
RECURSIVE ESum(_, _)
ESum(F, n) == IF n <= 0 THEN EZero ELSE EAdd(ESum(F, n - 1), F[n - 1])

\* line 198: np.clip(np.exp(x), 0, 1); exp(x) >= 1 exactly when x >= 0.
ClipExp(x) == IF RLess(x, RInt(0)) THEN EUnit(x, RInt(1)) ELSE ELift(RInt(1))

RSquare(a) == RMul(a, a)
Dims(v) == Cardinality(DOMAIN v)

\* lines 67, 118, 164, 205: lx = np.sum(Jd * np.expand_dims(d1, axis=2), axis=1)
TermLx(Jd, d1) ==
    [a \in DOMAIN Jd[0] |-> ESum([i \in DOMAIN Jd |-> EScale(d1[i], Jd[i][a])], Dims(Jd))]

\* lines 77-78: sec = np.sum(d1_expand * Jdd, axis=1)
TermSec(Jdd, d1) ==
    [a \in DOMAIN Jdd[0] |-> [b \in DOMAIN Jdd[0][a] |->
        ESum([i \in DOMAIN Jdd |-> EScale(d1[i], Jdd[i][a][b])], Dims(Jdd))]]

\* lines 80-84: np.sum(np.sum(Jd_expand_1 * Jd_expand_2 * d2_expand, axis=1), axis=1)
TermOuter(Jd, d2) ==
    [a \in DOMAIN Jd[0] |-> [b \in DOMAIN Jd[0] |->
        ESum([i \in DOMAIN Jd |->
                ESum([j \in DOMAIN Jd |-> EScale(d2[i][j], RMul(Jd[i][a], Jd[j][b]))],
                     Dims(Jd))],
             Dims(Jd))]]

\* Slip: the second-derivative part is added as it is.
MutSymmetrize(lxx, sec) ==
    [a \in DOMAIN lxx |-> [b \in DOMAIN lxx[a] |-> EAdd(lxx[a][b], sec[a][b])]]

\* lines 85, 137, 178, 218: lxx += 0.5 * sec + 0.5 * np.transpose(sec, [0, 2, 1])
Symmetrize(lxx, sec) ==
    [a \in DOMAIN lxx |-> [b \in DOMAIN lxx[a] |->
        EAdd(lxx[a][b],
             EAdd(EScale(sec[a][b], Rat(1, 2)), EScale(sec[b][a], Rat(1, 2))))]]

\* The derivatives every term returns for one timestep, from its factors d1
\* and d2.
TermDerivatives(Jd, Jdd, d1, d2) ==
    [lx |-> TermLx(Jd, d1),
     lxx |-> Symmetrize(TermOuter(Jd, d2), TermSec(Jdd, d1))]

\* lines 56-60 and 108-112: the scaled quantities of one timestep
Scaled(wp, d) ==
    [dsclsq |-> [i \in DOMAIN d |-> RMul(d[i], RSqrt(wp[i]))],
     dscl |-> [i \in DOMAIN d |-> RMul(d[i], wp[i])],
     dscls |-> [i \in DOMAIN d |-> RMul(d[i], RSquare(wp[i]))]]
SumSquares(v) == RSum([i \in DOMAIN v |-> RSquare(v[i])], Dims(v))
Eye(i, j) == RInt(IF i = j THEN 1 ELSE 0)

\* evall1l2term at one timestep, lines 56-87
L1L2Step(wp, d, Jd, Jdd, l1, l2, alpha) ==
    LET s == Scaled(wp, d)
        psq == RSqrt(RAdd(alpha, SumSquares(s.dscl)))
        d1 == [i \in DOMAIN d |->
                 RAdd(RMul(s.dscl[i], l2), RMul(RDiv(s.dscls[i], psq), l1))]
        d2 == [i \in DOMAIN d |-> [j \in DOMAIN d |->
                 RAdd(RMul(l1,
                           RAdd(RMul(Eye(i, j), RDiv(RSquare(wp[j]), psq)),
                                RNeg(RDiv(RMul(s.dscls[j], s.dscls[i]),
                                          RMul(psq, RSquare(psq)))))),
                      RMul(l2, RMul(wp[i], Eye(i, j))))]]
        der == TermDerivatives(Jd, Jdd, [i \in DOMAIN d |-> ELift(d1[i])],
                               [i \in DOMAIN d |-> [j \in DOMAIN d |-> ELift(d2[i][j])]])
    IN  [l |-> RAdd(RMul(RMul(Rat(1, 2), SumSquares(s.dsclsq)), l2), RMul(psq, l1)),
         lx |-> der.lx, lxx |-> der.lxx]

\* evallogl2term at one timestep, lines 108-139; the logarithm of the loss is
\* kept as its argument and its factor 0.5 * l1.
LogL2Step(wp, d, Jd, Jdd, l1, l2, alpha) ==
    LET s == Scaled(wp, d)
        psq == RAdd(alpha, SumSquares(s.dscl))
        d1 == [i \in DOMAIN d |->
                 RAdd(RMul(s.dscl[i], l2), RMul(RDiv(s.dscls[i], psq), l1))]
        d2 == [i \in DOMAIN d |-> [j \in DOMAIN d |->
                 RAdd(RMul(l1,
                           RAdd(RMul(Eye(i, j), RDiv(RSquare(wp[j]), psq)),
                                RNeg(RDiv(RMul(s.dscls[j], s.dscls[i]), RSquare(psq))))),
                      RMul(l2, RMul(wp[i], Eye(i, j))))]]
        der == TermDerivatives(Jd, Jdd, [i \in DOMAIN d |-> ELift(d1[i])],
                               [i \in DOMAIN d |-> [j \in DOMAIN d |-> ELift(d2[i][j])]])
    IN  [l |-> [quadratic |-> RMul(RMul(Rat(1, 2), SumSquares(s.dsclsq)), l2),
                log_factor |-> RMul(Rat(1, 2), l1),
                log_of |-> psq],
         lx |-> der.lx, lxx |-> der.lxx]

\* evalasymetric at one timestep, lines 158-180
NpSign(a) == RInt(Sign(a.n))
AsymStep(wp, d, Jd, Jdd, alpha) ==
    LET skew == [i \in DOMAIN d |->
                   RMul(RSquare(wp[i]), RSquare(RAdd(NpSign(d[i]), alpha)))]
        d1 == [i \in DOMAIN d |-> RMul(d[i], skew[i])]
        d2 == [i \in DOMAIN d |-> [j \in DOMAIN d |-> RMul(skew[i], Eye(i, j))]]
        der == TermDerivatives(Jd, Jdd, [i \in DOMAIN d |-> ELift(d1[i])],
                               [i \in DOMAIN d |-> [j \in DOMAIN d |-> ELift(d2[i][j])]])
    IN  [l |-> RMul(Rat(1, 2),
                    RSum([i \in DOMAIN d |-> RMul(RSquare(d[i]), skew[i])], Dims(d))),
         lx |-> der.lx, lxx |-> der.lxx]

\* evalexp at one timestep: lines 198, 204 and 208, then lines 201-218
ExpEx(wp, d) == [i \in DOMAIN d |-> ClipExp(RMul(d[i], wp[i]))]
ExpD1(wp, d) == [i \in DOMAIN d |-> EScale(ExpEx(wp, d)[i], RNeg(wp[i]))]
ExpD2(wp, d) ==
    [i \in DOMAIN d |-> [j \in DOMAIN d |->
        EScale(EScale(ExpEx(wp, d)[i], RSquare(wp[i])), Eye(i, j))]]
ExpStep(wp, d, Jd, Jdd) ==
    LET der == TermDerivatives(Jd, Jdd, ExpD1(wp, d), ExpD2(wp, d))
    IN  [l |-> ESum(ExpEx(wp, d), Dims(d)), lx |-> der.lx, lxx |-> der.lxx]

\* The four functions on T x D inputs: (l, lx, lxx), one entry per timestep.
TermTuple(steps) ==
    Returned([l |-> [t \in DOMAIN steps |-> steps[t].l],
              lx |-> [t \in DOMAIN steps |-> steps[t].lx],
              lxx |-> [t \in DOMAIN steps |-> steps[t].lxx]])
evall1l2term(wp, d, Jd, Jdd, l1, l2, alpha) ==
    TermTuple([t \in DOMAIN d |-> L1L2Step(wp[t], d[t], Jd[t], Jdd[t], l1, l2, alpha)])
evallogl2term(wp, d, Jd, Jdd, l1, l2, alpha) ==
    TermTuple([t \in DOMAIN d |-> LogL2Step(wp[t], d[t], Jd[t], Jdd[t], l1, l2, alpha)])
evalasymetric(wp, d, Jd, Jdd, alpha) ==
    TermTuple([t \in DOMAIN d |-> AsymStep(wp[t], d[t], Jd[t], Jdd[t], alpha)])
evalexp(wp, d, Jd, Jdd) ==
    TermTuple([t \in DOMAIN d |-> ExpStep(wp[t], d[t], Jd[t], Jdd[t])])

\* Inputs: one timestep of (wp, d, Jd, Jdd) with D = 2 and Dx = 2. The second
\* derivative Jdd is not symmetric in B and C; d * wp is negative, positive
\* and zero across the slices.
RVec(pairs) == [i \in 0 .. (Len(pairs) - 1) |-> Rat(pairs[i + 1][1], pairs[i + 1][2])]
Stack(arrays) == [i \in 0 .. (Len(arrays) - 1) |-> arrays[i + 1]]
TermSlices ==
    {[wp |-> RVec(<< <<1, 1>>, <<4, 1>> >>), d |-> RVec(<< <<-2, 1>>, <<-1, 2>> >>),
      Jd |-> NpEye(2),
      Jdd |-> Stack(<<NpZeros2(2, 2), NpZeros2(2, 2)>>)],
     [wp |-> RVec(<< <<4, 1>>, <<1, 4>> >>), d |-> RVec(<< <<-1, 2>>, <<8, 1>> >>),
      Jd |-> FromRows(<< <<1, 2>>, <<0, 1>> >>),
      Jdd |-> Stack(<<FromRows(<< <<0, 1>>, <<0, 0>> >>),
                      FromRows(<< <<1, 2>>, <<-1, 0>> >>)>>)],
     [wp |-> RVec(<< <<1, 1>>, <<4, 1>> >>), d |-> RVec(<< <<0, 1>>, <<0, 1>> >>),
      Jd |-> FromRows(<< <<1, 0>>, <<1, 1>> >>),
      Jdd |-> Stack(<<FromRows(<< <<0, 1>>, <<3, 0>> >>),
                      FromRows(<< <<0, 1>>, <<3, 0>> >>)>>)],
     [wp |-> RVec(<< <<4, 1>>, <<1, 1>> >>), d |-> RVec(<< <<-1, 3>>, <<0, 1>> >>),
      Jd |-> FromRows(<< <<2, -1>>, <<0, 3>> >>),
      Jdd |-> Stack(<<FromRows(<< <<1, 1>>, <<1, 0>> >>),
                      FromRows(<< <<1, 1>>, <<1, 0>> >>)>>)]}

TermFunctions == {"evall1l2term", "evallogl2term", "evalasymetric", "evalexp"}
TermWeights ==
    {[l1 |-> RInt(1), l2 |-> RInt(0), alpha |-> RInt(1)],
     [l1 |-> RInt(0), l2 |-> RInt(1), alpha |-> RInt(1)],
     [l1 |-> RInt(2), l2 |-> RInt(3), alpha |-> RInt(1)]}
Skewness == {Rat(-1, 2), RInt(0), RInt(1)}
TermParams ==
    {[fn |-> f, l1 |-> w.l1, l2 |-> w.l2, alpha |-> w.alpha] :
        f \in {"evall1l2term", "evallogl2term"}, w \in TermWeights}
    \cup {[fn |-> "evalasymetric", l1 |-> RInt(0), l2 |-> RInt(0), alpha |-> a] :
            a \in Skewness}
    \cup {[fn |-> "evalexp", l1 |-> RInt(0), l2 |-> RInt(0), alpha |-> RInt(0)]}

\* A cost calls one of the four functions.
TermCall ==
    /\ fn_args = NoArgs \/ fn_ret # NoRet
    /\ \E p \in TermParams, x \in [Steps -> TermSlices] :
          fn_args' = [fn |-> p.fn,
                      wp |-> [t \in Steps |-> x[t].wp],
                      d |-> [t \in Steps |-> x[t].d],
                      Jd |-> [t \in Steps |-> x[t].Jd],
                      Jdd |-> [t \in Steps |-> x[t].Jdd],
                      l1 |-> p.l1, l2 |-> p.l2, alpha |-> p.alpha]
    /\ fn_ret' = NoRet
    /\ UNCHANGED algvars

\* The function returns (l, lx, lxx).
TermReturn ==
    /\ fn_args.fn \in TermFunctions
    /\ fn_ret = NoRet
    /\ fn_ret' =
          CASE fn_args.fn = "evall1l2term" ->
                 evall1l2term(fn_args.wp, fn_args.d, fn_args.Jd, fn_args.Jdd,
                              fn_args.l1, fn_args.l2, fn_args.alpha)
            [] fn_args.fn = "evallogl2term" ->
                 evallogl2term(fn_args.wp, fn_args.d, fn_args.Jd, fn_args.Jdd,
                               fn_args.l1, fn_args.l2, fn_args.alpha)
            [] fn_args.fn = "evalasymetric" ->
                 evalasymetric(fn_args.wp, fn_args.d, fn_args.Jd, fn_args.Jdd,
                               fn_args.alpha)
            [] OTHER ->
                 evalexp(fn_args.wp, fn_args.d, fn_args.Jd, fn_args.Jdd)
    /\ UNCHANGED <<algvars, fn_args>>

TermsInit == Init /\ step_rule = "mc"

TermsNext ==
    \/ TermCall
    \/ TermReturn

SpecTerms == TermsInit /\ [][TermsNext]_vars

\* ------------------------------------------------------------------ claims
TermDone == fn_args.fn \in TermFunctions /\ fn_ret # NoRet

\* C24: for each of evall1l2term, evallogl2term, evalasymetric and evalexp and
\* every timestep t the returned lxx[t] equals its own transpose, also when
\* the second Jacobian Jdd is not symmetric.
C24_HessianSymmetric ==
    TermDone =>
        /\ fn_ret.raised = "none"
        /\ \A t \in Steps : \A a, b \in DOMAIN fn_ret.value.lxx[t] :
              fn_ret.value.lxx[t][a][b] = fn_ret.value.lxx[t][b][a]

\* evalexp has returned for a timestep whose Jdd is not symmetric and whose
\* first-order factor is not zero; the Hessian has an off-diagonal entry.
C24_Witness ==
    /\ TermDone
    /\ fn_args.fn = "evalexp"
    /\ fn_args.Jdd[0][1][0][1] # fn_args.Jdd[0][1][1][0]
    /\ TermSec(fn_args.Jdd[0], ExpD1(fn_args.wp[0], fn_args.d[0]))[0][1]
          # TermSec(fn_args.Jdd[0], ExpD1(fn_args.wp[0], fn_args.d[0]))[1][0]
    /\ fn_ret.value.lxx[0][0][1] # EZero

\* C29: in evalexp, for wp > 0, the first-order factor d1 is wp * exp(d * wp),
\* which is not negative, where d * wp < 0, and 0 in the clipped region
\* d * wp >= 0.
C29_GradientOfBarrier ==
    (TermDone /\ fn_args.fn = "evalexp") =>
        \A t \in Steps : \A i \in DOMAIN fn_args.d[t] :
            LET wp == fn_args.wp[t][i]
                x == RMul(fn_args.d[t][i], wp)
            IN  RLess(RInt(0), wp) =>
                    ExpD1(fn_args.wp[t], fn_args.d[t])[i] =
                        IF RLess(x, RInt(0)) THEN EUnit(x, wp) ELSE EZero

====
